---- MODULE Spec2Model ----
(***************************************************************************)
(* PayMCP: the three payment flows (two-step, progress, elicitation) over  *)
(* the session-keyed state store with its payment-id index.                *)
(*                                                                         *)
(* One wrapper invocation is a process p with a program counter.  A step   *)
(* runs the handler from one suspension point (await) to the next; the     *)
(* answers of the outside world (the provider's get_payment_status and     *)
(* create_payment, the user's answer to elicit, the outcome of the         *)
(* original tool) are the inputs of the step.  The provider is an external *)
(* service: each status query may answer any status or raise.              *)
(*                                                                         *)
(* Time is not part of the flow model: the runs modelled are shorter than  *)
(* the store's TTL, so no entry expires while a flow uses it.  The ctx     *)
(* entry of kwargs is modelled apart from the tool's own arguments.        *)
(***************************************************************************)
EXTENDS Integers, FiniteSets, Sequences, TLC

\* ------------------------------------------------------------------ bounds
MaxPayments == 2        \* payments the provider creates in one run
MaxCalls == 2           \* calls of the original handler in one run
MaxPolls == 2           \* polls of one progress invocation (MAX_WAIT_SECONDS / DEFAULT_POLL_SECONDS, scaled)

\* --------------------------------------------------------------- constants
DEFAULT_POLL_SECONDS == 3
\* a wait budget that lets the loop run one turn more
MAX_WAIT_SECONDS_one_more == (MaxPolls + 1) * DEFAULT_POLL_SECONDS

MAX_WAIT_SECONDS == MaxPolls * DEFAULT_POLL_SECONDS
max_attempts == 5

None == "None"
ABSENT == "absent"
Raise == "RAISE"

\* payment ids the provider issues, in order of creation
PidNames == <<"PID1", "PID2", "PID3", "PID4">>
Pids == { PidNames[i] : i \in 1..MaxPayments }
Procs == {1, 2}
AllTools == {"T", "U"}
SessionKeys == {"s1"}

\* PaymentStatus values a provider returns from get_payment_status
ProviderStatuses == {"paid", "pending", "processing", "canceled", "expired", "failed"}
StatusAnswers == ProviderStatuses \cup {Raise}
TerminalStatuses == {"canceled", "expired", "failed"}

\* no arguments at all (Python None), as opposed to a dict of arguments
NoneArgs == [none |-> 0]

\* keyword arguments of a call: x is required, y is optional
ArgChoices == { [k \in {"x"} |-> 1], [k \in {"x", "y"} |-> 2] }

\* what ctx.elicit does: return an action, or raise with a text
ElicitAnswers == {"accept", "decline", "cancel", "exc_accept", "exc_cancel", "exc_other"}

Flows == {"two_step", "progress", "elicitation"}

VARIABLES cfg, store, payment_index, PENDING_ARGS, payments, inv, ncalls, paidReported, initArgs, exhausted,
          now, ttl_seconds, last_cleanup, lastop, pending_op, threads, applied

vars == <<cfg, store, payment_index, PENDING_ARGS, payments, inv, ncalls, paidReported, initArgs, exhausted,
          now, ttl_seconds, last_cleanup, lastop, pending_op, threads, applied>>

\* what the flows share: the coordinator, the legacy map, the invocations and their history
flowVars == <<cfg, PENDING_ARGS, payments, inv, ncalls, paidReported, initArgs, exhausted>>

\* the clock and the timing fields of the in-memory store, with the store
\* operation last done and the one in progress
clockVars == <<now, ttl_seconds, last_cleanup, lastop, pending_op, threads, applied>>

\* ------------------------------------------------------------------ context
\* The per-call context object: each probed location is ABSENT or holds a value.
NoCtx == [none |-> TRUE, session_id |-> ABSENT, session_obj_id |-> ABSENT, session_obj_session_id |-> ABSENT, meta_session_id |-> ABSENT, request_id |-> ABSENT, elicit |-> FALSE]

Ctx(sid, soid, sosid, meta, req, el) == [none |-> FALSE, session_id |-> sid, session_obj_id |-> soid, session_obj_session_id |-> sosid, meta_session_id |-> meta, request_id |-> req, elicit |-> el]

FlowContexts == { NoCtx, Ctx("s1", ABSENT, ABSENT, ABSENT, ABSENT, TRUE), Ctx(ABSENT, "s1", ABSENT, ABSENT, ABSENT, TRUE) }

extract_session_id(ctx) ==
    IF ctx.none THEN None
    ELSE IF ctx.session_id # ABSENT THEN ctx.session_id
    ELSE IF ctx.session_obj_id # ABSENT THEN ctx.session_obj_id
    ELSE IF ctx.session_obj_session_id # ABSENT THEN ctx.session_obj_session_id
    ELSE IF ctx.meta_session_id # ABSENT THEN ctx.meta_session_id
    ELSE IF ctx.request_id # ABSENT THEN "req_" \o ctx.request_id
    ELSE None

\* the progress wrapper probes ctx.session.id and ctx.session.session_id only
progress_session_id(ctx) ==
    IF ctx.none THEN None
    ELSE IF ctx.session_obj_id # ABSENT THEN ctx.session_obj_id
    ELSE IF ctx.session_obj_session_id # ABSENT THEN ctx.session_obj_session_id
    ELSE None

\* -------------------------------------------------------------- state store
NoState == [payment_id |-> None]
NoKey == "nokey"

Url(pid) == "https://pay/" \o pid

\* a store with its index
Db(s, i) == [store |-> s, payment_index |-> i]

InMemoryStore_get(db, key) ==
    IF key \in DOMAIN db.store /\ db.store[key] # NoState THEN db.store[key] ELSE NoState

InMemoryStore_get_by_payment_id(db, pid) ==
    IF pid \notin DOMAIN db.payment_index \/ db.payment_index[pid] = NoKey THEN NoState
    ELSE InMemoryStore_get(db, db.payment_index[pid])

DropIndex(idx, pid) ==
    IF pid \in DOMAIN idx THEN [idx EXCEPT ![pid] = NoKey] ELSE idx

\* put that drops the key's old index entry and writes no new one
InMemoryStore_put_unindexed(db, key, value) ==
    LET old == db.store[key]
        i1 == IF value.payment_id # None /\ old # NoState /\ old.payment_id # None
              THEN DropIndex(db.payment_index, old.payment_id) ELSE db.payment_index
    IN Db([db.store EXCEPT ![key] = value], i1)

InMemoryStore_put(db, key, value) ==
    LET old == db.store[key]
        i1 == IF value.payment_id # None /\ old # NoState /\ old.payment_id # None
              THEN DropIndex(db.payment_index, old.payment_id) ELSE db.payment_index
        i2 == IF value.payment_id # None THEN [i1 EXCEPT ![value.payment_id] = key] ELSE i1
    IN Db([db.store EXCEPT ![key] = value], i2)

InMemoryStore_delete_with_index(db, key) ==
    IF key \in DOMAIN db.store /\ db.store[key] # NoState
    THEN Db([db.store EXCEPT ![key] = NoState],
            IF db.store[key].payment_id # None THEN DropIndex(db.payment_index, db.store[key].payment_id) ELSE db.payment_index)
    ELSE db

InMemoryStore_delete(db, key) == InMemoryStore_delete_with_index(db, key)

\* ------------------------------------------------------------ state helpers
NewState(session_id, payment_id, tool_name, tool_args, status) ==
    [session_id |-> session_id, payment_id |-> payment_id, payment_url |-> Url(payment_id),
     tool_name |-> tool_name, tool_args |-> tool_args, status |-> status, status_at |-> {}]

\* save_payment_state that files the state of a call without a session under a shared key
save_payment_state_shared_key(db, session_id, has_store, payment_id, tool_name, tool_args, status) ==
    IF ~has_store THEN db
    ELSE LET key == IF session_id = None THEN "s1" ELSE session_id
         IN InMemoryStore_put(db, key, NewState(key, payment_id, tool_name, tool_args, status))

save_payment_state(db, session_id, has_store, payment_id, tool_name, tool_args, status) ==
    IF session_id = None \/ ~has_store THEN db
    ELSE InMemoryStore_put(db, session_id, NewState(session_id, payment_id, tool_name, tool_args, status))

\* update_payment_status that drops the state where it should mark it
update_payment_status_deleting(db, session_id, has_store, status) ==
    IF session_id = None \/ ~has_store THEN db ELSE InMemoryStore_delete(db, session_id)

\* update_payment_status that never writes the new status
update_payment_status_unsaved(db, session_id, has_store, status) == db

update_payment_status(db, session_id, has_store, status) ==
    IF session_id = None \/ ~has_store THEN db
    ELSE LET state == InMemoryStore_get(db, session_id)
         IN IF state # NoState
            THEN InMemoryStore_put(db, session_id,
                     [state EXCEPT !.status = status, !.status_at = @ \cup {status}])
            ELSE db

cleanup_payment_state(db, session_id, has_store) ==
    IF session_id # None /\ has_store THEN InMemoryStore_delete(db, session_id) ELSE db

\* the answer of check_existing_payment, with the store it leaves and
\* whether it asked the provider (r is the provider's answer when it did)
Existing(db, pid, url, args, exec, asked) ==
    [db |-> db, payment_id |-> pid, payment_url |-> url, stored_args |-> args,
     should_execute |-> exec, asked |-> asked]

\* check_existing_payment that forgets a payment the provider reports pending
check_existing_payment_no_reuse(db, session_id, has_store, tool_name, r) ==
    IF session_id = None \/ ~has_store THEN Existing(db, None, None, NoneArgs, FALSE, FALSE)
    ELSE LET state == InMemoryStore_get(db, session_id) IN
         IF state = NoState THEN Existing(db, None, None, NoneArgs, FALSE, FALSE)
         ELSE IF r = "paid"
              THEN Existing(InMemoryStore_delete(db, session_id), state.payment_id, state.payment_url,
                            IF state.tool_name = tool_name THEN state.tool_args ELSE NoneArgs, TRUE, TRUE)
         ELSE IF r \in {"pending", "processing"}
              THEN Existing(db, None, None, NoneArgs, FALSE, TRUE)
         ELSE IF r \in {"canceled", "expired", "failed"}
              THEN Existing(InMemoryStore_delete(db, session_id), None, None, NoneArgs, FALSE, TRUE)
         ELSE IF r = Raise
              THEN Existing(InMemoryStore_delete(db, session_id), None, None, NoneArgs, FALSE, TRUE)
         ELSE Existing(db, state.payment_id, state.payment_url, NoneArgs, FALSE, TRUE)

check_existing_payment(db, session_id, has_store, tool_name, r) ==
    IF session_id = None \/ ~has_store THEN Existing(db, None, None, NoneArgs, FALSE, FALSE)
    ELSE LET state == InMemoryStore_get(db, session_id) IN
         IF state = NoState THEN Existing(db, None, None, NoneArgs, FALSE, FALSE)
         ELSE IF r = "paid"
              THEN Existing(InMemoryStore_delete(db, session_id), state.payment_id, state.payment_url,
                            IF state.tool_name = tool_name THEN state.tool_args ELSE NoneArgs, TRUE, TRUE)
         ELSE IF r \in {"pending", "processing"}
              THEN Existing(db, state.payment_id, state.payment_url, NoneArgs, FALSE, TRUE)
         ELSE IF r \in {"canceled", "expired", "failed"}
              THEN Existing(InMemoryStore_delete(db, session_id), None, None, NoneArgs, FALSE, TRUE)
         ELSE IF r = Raise
              THEN Existing(InMemoryStore_delete(db, session_id), None, None, NoneArgs, FALSE, TRUE)
         ELSE Existing(db, state.payment_id, state.payment_url, NoneArgs, FALSE, TRUE)

\* merged_kwargs = {**kwargs}; merged_kwargs.update(stored_args)
Merge(kwargs, stored_args) ==
    [k \in (DOMAIN kwargs) \cup (DOMAIN stored_args) |->
        IF k \in DOMAIN stored_args THEN stored_args[k] ELSE kwargs[k]]

\* an immediate execution that merges whatever the check returned
immediate_args_always_merged(kwargs, stored_args) == Merge(kwargs, stored_args)

\* the arguments of the immediate execution: stored ones over the call's own
immediate_args(kwargs, stored_args) ==
    IF stored_args # NoneArgs THEN Merge(kwargs, stored_args) ELSE kwargs

\* ------------------------------------------------------- two-step storage
Retrieved(args, key) == [original_args |-> args, state_key |-> key]

retrieve_stored_args(db, pend, payment_id, has_store) ==
    LET byIndex == InMemoryStore_get_by_payment_id(db, payment_id)
        byKey == InMemoryStore_get(db, payment_id)
        legacy == IF payment_id \in DOMAIN pend THEN pend[payment_id] ELSE NoneArgs
    IN IF has_store /\ byIndex # NoState
       THEN Retrieved(byIndex.tool_args, IF byIndex.session_id # None THEN byIndex.session_id ELSE payment_id)
       ELSE IF has_store /\ byKey # NoState
       THEN Retrieved(byKey.tool_args, payment_id)
       ELSE Retrieved(legacy, None)

\* the store and the legacy map after store_payment_args
Stored(db, pend) == [db |-> db, pend |-> pend]

store_payment_args(db, pend, session_id, payment_id, tool_name, kwargs, has_store) ==
    Stored(save_payment_state(db, session_id, has_store, payment_id, tool_name, kwargs, "requested"),
           IF has_store THEN pend ELSE [pend EXCEPT ![payment_id] = kwargs])

cleanup_payment_args(db, pend, state_key, payment_id, has_store) ==
    IF state_key # None /\ has_store
    THEN Stored(cleanup_payment_state(db, state_key, has_store), pend)
    ELSE Stored(db, IF payment_id \in DOMAIN pend THEN [pend EXCEPT ![payment_id] = NoneArgs] ELSE pend)

confirm_tool_name(tool) == "confirm_" \o tool \o "_payment"

\* _confirm_tool without the check that the status is paid
confirm_decision_unchecked(original_args, r) ==
    IF original_args = NoneArgs THEN "invalid_payment_id"
    ELSE IF r = Raise THEN "status_check_failed"
    ELSE "call"

\* what _confirm_tool does with the stored arguments and the provider's answer
confirm_decision(original_args, r) ==
    IF original_args = NoneArgs THEN "invalid_payment_id"
    ELSE IF r = Raise THEN "status_check_failed"
    ELSE IF r # "paid" THEN "payment_not_complete"
    ELSE "call"

\* a _confirm_tool that cleans up when it refuses a payment that is not paid
confirm_refusal_cleaning(db, pend, what, state_key, payment_id, has_store) ==
    IF what = "payment_not_complete"
    THEN cleanup_payment_args(db, pend, state_key, payment_id, has_store)
    ELSE Stored(db, pend)

\* the store and the legacy map after _confirm_tool returned an error: each
\* of its three error returns comes before any write
confirm_refusal(db, pend, what, state_key, payment_id, has_store) == Stored(db, pend)

\* -------------------------------------------------------------- invocations
\* The record of one wrapper invocation.  pc, op, tool, sid, kwargs,
\* payment_id, payment_url, state_key, waited, attempt, can_elicit, after and
\* call_args are the locals of the wrapper; the envelope it returns is in
\* outcome, reason, message, next_step, ret_pid and ret_url; the other fields
\* record what happened during the invocation.
Idle ==
    [pc |-> "idle", op |-> "none", tool |-> "none", sid |-> None, kwargs |-> NoneArgs,
     payment_id |-> None, payment_url |-> None, state_key |-> None,
     waited |-> 0, attempt |-> 0, can_elicit |-> FALSE,
     after |-> "none", called |-> FALSE, call_args |-> NoneArgs,
     pre |-> "none", pre_pid |-> None, pre_init |-> NoneArgs, pre_exhausted |-> FALSE,
     created |-> FALSE, reused |-> FALSE,
     last |-> "none", terminal_pids |-> {}, last_elicit |-> "none", budget_out |-> FALSE,
     prev_pending |-> None, prev_created |-> None, prev_confirmed |-> None, prev_incomplete |-> None,
     outcome |-> "none", reason |-> "none", message |-> "none", next_step |-> "none",
     ret_pid |-> None, ret_url |-> None, aborted |-> FALSE]

CurDb == Db(store, payment_index)

Free(p) == inv[p].pc \in {"idle", "done"}

CanStart(p, tool) == p <= cfg.procs /\ Free(p) /\ tool \in cfg.tools /\ ncalls < MaxCalls

NextPid == PidNames[payments + 1]

\* the answers of the provider to a status query that is made, or no answer
AnswersWhen(asks) == IF asks THEN StatusAnswers ELSE {"none"}

\* the existing-payment check will ask the provider about a stored payment
Asks(sid) == cfg.has_store /\ InMemoryStore_get(CurDb, sid) # NoState

\* the payment a pending envelope of the invocation that just ended on this
\* session carried, when that invocation was an initiation
PrevPending(p, sid) ==
    IF inv[p].pc = "done" /\ inv[p].op # "confirm" /\ sid # None /\ inv[p].sid = sid
       /\ inv[p].outcome = "pending"
    THEN inv[p].ret_pid ELSE None

\* the payment the invocation that just ended created, when it was an initiation
PrevCreated(p) ==
    IF inv[p].pc = "done" /\ inv[p].op = "initiate" /\ inv[p].created /\ inv[p].outcome = "pending"
    THEN inv[p].ret_pid ELSE None

\* the payment the confirmation that just ended asked the provider about and
\* found paid
PrevConfirmed(p) ==
    IF inv[p].pc = "done" /\ inv[p].op = "confirm" /\ inv[p].pre = "paid"
    THEN inv[p].payment_id ELSE None

\* the payment the confirmation that just ended refused as not paid
PrevIncomplete(p) ==
    IF inv[p].pc = "done" /\ inv[p].op = "confirm" /\ inv[p].reason = "payment_not_complete"
    THEN inv[p].payment_id ELSE None

\* the record of an invocation that begins: what the preamble found
Begin(p, op, tool, sid, kwargs, found, r, asked) ==
    [Idle EXCEPT !.op = op, !.tool = tool, !.sid = sid, !.kwargs = kwargs,
                 !.pre = IF asked THEN r ELSE "none",
                 !.pre_pid = IF asked THEN found.payment_id ELSE None,
                 !.pre_init = IF asked THEN initArgs[found.payment_id] ELSE NoneArgs,
                 !.pre_exhausted = asked /\ found.payment_id \in exhausted,
                 !.last = IF asked THEN r ELSE "none",
                 !.terminal_pids = IF asked /\ r \in TerminalStatuses THEN {found.payment_id} ELSE {},
                 !.prev_pending = PrevPending(p, sid)]

\* an invocation that does not take the stored pending payment over
Reuse_forgetting(rec, ex) == rec

Reuse(rec, ex) == [rec EXCEPT !.reused = TRUE, !.payment_id = ex.payment_id, !.payment_url = ex.payment_url]

\* the paid payment the preamble found: the wrapper's locals hold it
Found(rec, ex) == [rec EXCEPT !.payment_id = ex.payment_id, !.payment_url = ex.payment_url]

Created(rec, pid) == [rec EXCEPT !.created = TRUE, !.payment_id = pid, !.payment_url = Url(pid)]

Call(rec, args, after) ==
    [rec EXCEPT !.pc = "call", !.called = TRUE, !.call_args = args, !.after = after]

Finish(rec, outcome, reason) ==
    [rec EXCEPT !.pc = "done", !.outcome = outcome, !.reason = reason, !.waited = 0, !.attempt = 0]

Envelope(rec, status, reason, message, pid, url, next) ==
    [rec EXCEPT !.pc = "done", !.waited = 0, !.attempt = 0,
                !.outcome = status, !.reason = reason, !.message = message,
                !.ret_pid = pid, !.ret_url = url, !.next_step = next]

Reported(pid, r) == IF r = "paid" THEN paidReported \cup {pid} ELSE paidReported

\* the payments whose state the store holds
LivePids(db) == { db.store[k].payment_id : k \in DOMAIN db.store } \ {None}

\* The step leaves the store as db.  The history variables follow the
\* payments that are stored, are in the legacy map or were created last: exhausted gains the
\* payments of exh, initArgs the arguments kw of a payment pid just created.
SetDb(db, exh, pid, kw) ==
    /\ store' = db.store
    /\ payment_index' = db.payment_index
    /\ exhausted' = (exhausted \cup exh) \cap LivePids(db)
    /\ initArgs' = [q \in Pids |-> IF q = pid THEN kw
                                   ELSE IF q \in LivePids(db) \/ PENDING_ARGS[q] # NoneArgs
                                           \/ (pid = None /\ payments > 0 /\ q = PidNames[payments])
                                   THEN initArgs[q] ELSE NoneArgs]

Same == SetDb(CurDb, {}, None, NoneArgs)

\* ------------------------------------------------------------ two-step flow
TwoStepInitiate(p, ctx, tool, kwargs, c) ==
    /\ cfg.flow = "two_step"
    /\ CanStart(p, tool)
    /\ \E r \in AnswersWhen(Asks(extract_session_id(ctx))) :
       LET session_id == extract_session_id(ctx)
           found == InMemoryStore_get(CurDb, session_id)
           ex == check_existing_payment(CurDb, session_id, cfg.has_store, tool, r)
           rec == Begin(p, "initiate", tool, session_id, kwargs, found, r, ex.asked)
       IN /\ paidReported' = IF ex.asked THEN Reported(found.payment_id, r) ELSE paidReported
          /\ IF ex.should_execute
             THEN /\ inv' = [inv EXCEPT ![p] = Call(Found(rec, ex), immediate_args(kwargs, ex.stored_args), "raw")]
                  /\ ncalls' = ncalls + 1
                  /\ SetDb(ex.db, {}, None, NoneArgs)
                  /\ UNCHANGED <<PENDING_ARGS, payments>>
             ELSE IF ex.payment_id # None /\ ex.payment_url # None
             THEN /\ inv' = [inv EXCEPT ![p] = Envelope(Reuse(rec, ex), "pending", "none", "Payment still pending",
                                  ex.payment_id, ex.payment_url, confirm_tool_name(tool))]
                  /\ SetDb(ex.db, {}, None, NoneArgs)
                  /\ UNCHANGED <<PENDING_ARGS, payments, ncalls>>
             ELSE IF c = Raise
             THEN /\ inv' = [inv EXCEPT ![p] = Finish(rec, "exception", "create_payment")]
                  /\ SetDb(ex.db, {}, None, NoneArgs)
                  /\ UNCHANGED <<PENDING_ARGS, payments, ncalls>>
             ELSE /\ payments < MaxPayments
                  /\ LET st == store_payment_args(ex.db, PENDING_ARGS, session_id, NextPid, tool, kwargs, cfg.has_store)
                     IN /\ SetDb(st.db, {}, NextPid, kwargs)
                        /\ PENDING_ARGS' = st.pend
                  /\ payments' = payments + 1
                  /\ inv' = [inv EXCEPT ![p] = Envelope(Created(rec, NextPid), "pending", "none", "payment required",
                                  NextPid, Url(NextPid), confirm_tool_name(tool))]
                  /\ UNCHANGED ncalls
    /\ UNCHANGED cfg
    /\ UNCHANGED clockVars

TwoStepConfirm(p, tool, payment_id) ==
    /\ cfg.flow = "two_step"
    /\ CanStart(p, tool)
    /\ \E r \in AnswersWhen(retrieve_stored_args(CurDb, PENDING_ARGS, payment_id, cfg.has_store).original_args # NoneArgs) :
       LET got == retrieve_stored_args(CurDb, PENDING_ARGS, payment_id, cfg.has_store)
           asked == got.original_args # NoneArgs
           what == confirm_decision(got.original_args, r)
           rec == [Idle EXCEPT !.op = "confirm", !.tool = tool, !.payment_id = payment_id,
                               !.state_key = got.state_key,
                               !.pre = IF asked THEN r ELSE "none",
                               !.pre_pid = IF asked THEN payment_id ELSE None,
                               !.last = IF asked THEN r ELSE "none",
                               !.terminal_pids = IF asked /\ r \in TerminalStatuses THEN {payment_id} ELSE {},
                               !.prev_created = PrevCreated(p),
                               !.prev_confirmed = PrevConfirmed(p),
                               !.prev_incomplete = PrevIncomplete(p)]
           st == confirm_refusal(CurDb, PENDING_ARGS, what, got.state_key, payment_id, cfg.has_store)
       IN /\ paidReported' = IF asked THEN Reported(payment_id, r) ELSE paidReported
          /\ IF what = "call"
             THEN /\ inv' = [inv EXCEPT ![p] = Call(rec, got.original_args, "confirm")]
                  /\ ncalls' = ncalls + 1
                  /\ Same
                  /\ UNCHANGED PENDING_ARGS
             ELSE /\ inv' = [inv EXCEPT ![p] = Envelope(rec, "error", what, what, payment_id, None, "none")]
                  /\ SetDb(st.db, {}, None, NoneArgs)
                  /\ PENDING_ARGS' = st.pend
                  /\ UNCHANGED ncalls
    /\ UNCHANGED <<cfg, payments>>
    /\ UNCHANGED clockVars

\* ------------------------------------------------------------ progress flow
\* the existing-payment check the progress wrapper does inline
\* an existing-payment check that keeps the payment when the query fails
progress_existing_keeping(db, session_id, has_store, tool_name, r) ==
    IF session_id = None \/ ~has_store THEN Existing(db, None, None, NoneArgs, FALSE, FALSE)
    ELSE LET state == InMemoryStore_get(db, session_id) IN
         IF state = NoState THEN Existing(db, None, None, NoneArgs, FALSE, FALSE)
         ELSE IF r = "paid"
              THEN Existing(InMemoryStore_delete(db, session_id), state.payment_id, state.payment_url,
                            IF state.tool_name = tool_name THEN state.tool_args ELSE NoneArgs, TRUE, TRUE)
         ELSE IF r \in {"canceled", "expired", "failed"}
              THEN Existing(InMemoryStore_delete(db, session_id), None, None, NoneArgs, FALSE, TRUE)
         ELSE Existing(db, state.payment_id, state.payment_url, NoneArgs, FALSE, TRUE)

progress_existing(db, session_id, has_store, tool_name, r) ==
    IF session_id = None \/ ~has_store THEN Existing(db, None, None, NoneArgs, FALSE, FALSE)
    ELSE LET state == InMemoryStore_get(db, session_id) IN
         IF state = NoState THEN Existing(db, None, None, NoneArgs, FALSE, FALSE)
         ELSE IF r = "paid"
              THEN Existing(InMemoryStore_delete(db, session_id), state.payment_id, state.payment_url,
                            IF state.tool_name = tool_name THEN state.tool_args ELSE NoneArgs, TRUE, TRUE)
         ELSE IF r \in {"pending", "processing"}
              THEN Existing(db, state.payment_id, state.payment_url, NoneArgs, FALSE, TRUE)
         ELSE IF r \in {"canceled", "expired", "failed"}
              THEN Existing(InMemoryStore_delete(db, session_id), None, None, NoneArgs, FALSE, TRUE)
         ELSE IF r = Raise
              THEN Existing(InMemoryStore_delete(db, session_id), None, None, NoneArgs, FALSE, TRUE)
         ELSE Existing(db, state.payment_id, state.payment_url, NoneArgs, FALSE, TRUE)

\* a progress wrapper that deletes the state where it should mark it
progress_set_status_dropping(db, session_id, has_store, status) ==
    IF session_id = None \/ ~has_store THEN db ELSE InMemoryStore_delete(db, session_id)

\* state = state_store.get(session_id); state['status'] = status; state_store.put(session_id, state)
progress_set_status(db, session_id, has_store, status) ==
    IF session_id = None \/ ~has_store THEN db
    ELSE LET state == InMemoryStore_get(db, session_id)
         IN IF state # NoState THEN InMemoryStore_put(db, session_id, [state EXCEPT !.status = status]) ELSE db

progress_delete(db, session_id, has_store) ==
    IF session_id # None /\ has_store THEN InMemoryStore_delete(db, session_id) ELSE db

\* create_payment and the first put of the progress wrapper
progress_create(db, session_id, has_store, payment_id, tool_name, kwargs) ==
    IF session_id # None /\ has_store
    THEN InMemoryStore_put(db, session_id, NewState(session_id, payment_id, tool_name, kwargs, "requested"))
    ELSE db

ProgressStart(p, ctx, tool, kwargs, c) ==
    /\ cfg.flow = "progress"
    /\ CanStart(p, tool)
    /\ \E r \in AnswersWhen(Asks(progress_session_id(ctx))) :
       LET session_id == progress_session_id(ctx)
           found == InMemoryStore_get(CurDb, session_id)
           ex == progress_existing(CurDb, session_id, cfg.has_store, tool, r)
           rec == Begin(p, "progress", tool, session_id, kwargs, found, r, ex.asked)
       IN /\ paidReported' = IF ex.asked THEN Reported(found.payment_id, r) ELSE paidReported
          /\ IF ex.should_execute
             THEN /\ inv' = [inv EXCEPT ![p] = Call(Found(rec, ex), immediate_args(kwargs, ex.stored_args), "raw")]
                  /\ ncalls' = ncalls + 1
                  /\ SetDb(ex.db, {}, None, NoneArgs)
                  /\ UNCHANGED payments
             ELSE IF ex.payment_id # None
             THEN /\ inv' = [inv EXCEPT ![p] = [Reuse(rec, ex) EXCEPT !.pc = "poll"]]
                  /\ SetDb(ex.db, {}, None, NoneArgs)
                  /\ UNCHANGED <<payments, ncalls>>
             ELSE IF c = Raise
             THEN /\ inv' = [inv EXCEPT ![p] = Finish(rec, "exception", "create_payment")]
                  /\ SetDb(ex.db, {}, None, NoneArgs)
                  /\ UNCHANGED <<payments, ncalls>>
             ELSE /\ payments < MaxPayments
                  /\ SetDb(progress_create(ex.db, session_id, cfg.has_store, NextPid, tool, kwargs), {}, NextPid, kwargs)
                  /\ payments' = payments + 1
                  /\ inv' = [inv EXCEPT ![p] = [Created(rec, NextPid) EXCEPT !.pc = "poll"]]
                  /\ UNCHANGED ncalls
    /\ UNCHANGED <<cfg, PENDING_ARGS>>
    /\ UNCHANGED clockVars

\* one turn of the polling loop: sleep, query, act on the answer
ProgressPoll(p, r) ==
    /\ inv[p].pc = "poll"
    /\ inv[p].waited < MAX_WAIT_SECONDS
    /\ LET rec == [inv[p] EXCEPT !.waited = @ + DEFAULT_POLL_SECONDS, !.last = r,
                                 !.budget_out = (inv[p].waited + DEFAULT_POLL_SECONDS >= MAX_WAIT_SECONDS),
                                 !.terminal_pids = IF r \in TerminalStatuses THEN @ \cup {inv[p].payment_id} ELSE @]
           sid == rec.sid
       IN /\ paidReported' = Reported(rec.payment_id, r)
          /\ IF r = Raise
             THEN /\ inv' = [inv EXCEPT ![p] = Finish(rec, "exception", "get_payment_status")]
                  /\ Same
                  /\ UNCHANGED ncalls
             ELSE IF r = "paid"
             THEN /\ inv' = [inv EXCEPT ![p] = Call(rec, rec.kwargs, "progress")]
                  /\ SetDb(progress_set_status(CurDb, sid, cfg.has_store, "paid"), {}, None, NoneArgs)
                  /\ ncalls' = ncalls + 1
             ELSE IF r \in {"canceled", "expired", "failed"}
             THEN /\ inv' = [inv EXCEPT ![p] = Finish(rec, "exception", "payment_status")]
                  /\ SetDb(progress_delete(CurDb, sid, cfg.has_store), {}, None, NoneArgs)
                  /\ UNCHANGED ncalls
             ELSE IF rec.waited < MAX_WAIT_SECONDS
             THEN /\ inv' = [inv EXCEPT ![p] = [rec EXCEPT !.last = "none"]]
                  /\ Same
                  /\ UNCHANGED ncalls
             ELSE /\ inv' = [inv EXCEPT ![p] = Finish(rec, "exception", "timeout")]
                  /\ SetDb(progress_set_status(CurDb, sid, cfg.has_store, "timeout"), {rec.payment_id}, None, NoneArgs)
                  /\ UNCHANGED ncalls
    /\ UNCHANGED <<cfg, PENDING_ARGS, payments>>
    /\ UNCHANGED clockVars

\* --------------------------------------------------------- elicitation flow
\* the action run_elicitation_loop works with after one ctx.elicit
\* the text of an exception raised by ctx.elicit: whether it holds the phrase
\* "unexpected elicitation action", the word accept, the word cancel or decline
HasPhrase(e) == e \in {"exc_accept", "exc_cancel", "exc_accept_cancel", "exc_unknown_action"}

NamesAccept(e) == e \in {"exc_accept", "exc_accept_cancel", "exc_plain_accept"}

NamesCancel(e) == e \in {"exc_cancel", "exc_accept_cancel", "exc_plain_cancel"}

\* the action read from any exception text that names one
elicit_action_any_text(can_elicit, e) ==
    IF ~can_elicit THEN "fail"
    ELSE IF e = "accept" THEN "accept"
    ELSE IF e \in {"cancel", "decline"} THEN "cancel"
    ELSE IF NamesAccept(e) THEN "accept"
    ELSE IF NamesCancel(e) THEN "cancel"
    ELSE "fail"

elicit_action(can_elicit, e) ==
    IF ~can_elicit THEN "fail"
    ELSE IF e = "accept" THEN "accept"
    ELSE IF e \in {"cancel", "decline"} THEN "cancel"
    ELSE IF HasPhrase(e)
         THEN IF NamesAccept(e) THEN "accept"
              ELSE IF NamesCancel(e) THEN "cancel"
              ELSE "fail"
    ELSE "fail"

ElicitationStart(p, ctx, tool, kwargs, c) ==
    /\ cfg.flow = "elicitation"
    /\ CanStart(p, tool)
    /\ \E r \in AnswersWhen(Asks(extract_session_id(ctx))) :
       LET session_id == extract_session_id(ctx)
           found == InMemoryStore_get(CurDb, session_id)
           ex == check_existing_payment(CurDb, session_id, cfg.has_store, tool, r)
           rec == [Begin(p, "elicitation", tool, session_id, kwargs, found, r, ex.asked) EXCEPT !.can_elicit = ctx.elicit]
       IN /\ paidReported' = IF ex.asked THEN Reported(found.payment_id, r) ELSE paidReported
          /\ IF ex.should_execute
             THEN /\ inv' = [inv EXCEPT ![p] = Call(Found(rec, ex), immediate_args(kwargs, ex.stored_args), "raw")]
                  /\ ncalls' = ncalls + 1
                  /\ SetDb(ex.db, {}, None, NoneArgs)
                  /\ UNCHANGED payments
             ELSE IF ex.payment_id # None
             THEN /\ inv' = [inv EXCEPT ![p] = [Reuse(rec, ex) EXCEPT !.pc = "elicit"]]
                  /\ SetDb(ex.db, {}, None, NoneArgs)
                  /\ UNCHANGED <<payments, ncalls>>
             ELSE IF c = Raise
             THEN /\ inv' = [inv EXCEPT ![p] = Finish(rec, "exception", "create_payment")]
                  /\ SetDb(ex.db, {}, None, NoneArgs)
                  /\ UNCHANGED <<payments, ncalls>>
             ELSE /\ payments < MaxPayments
                  /\ SetDb(save_payment_state(ex.db, session_id, cfg.has_store, NextPid, tool, kwargs, "requested"),
                           {}, NextPid, kwargs)
                  /\ payments' = payments + 1
                  /\ inv' = [inv EXCEPT ![p] = [Created(rec, NextPid) EXCEPT !.pc = "elicit"]]
                  /\ UNCHANGED ncalls
    /\ UNCHANGED <<cfg, PENDING_ARGS>>
    /\ UNCHANGED clockVars

\* The existing-payment check of a flow reads the store with
\* state_store.get(session_id) outside every try block, and a store backend
\* re-raises the errors of its server: the read fails and the exception
\* leaves the wrapper before the provider is asked anything.
StoreReadRaises(p, ctx, tool, kwargs) ==
    /\ cfg.flow \in Flows
    /\ CanStart(p, tool)
    /\ cfg.has_store
    /\ LET session_id == IF cfg.flow = "progress" THEN progress_session_id(ctx) ELSE extract_session_id(ctx)
           op == IF cfg.flow = "two_step" THEN "initiate" ELSE cfg.flow
           rec == [Begin(p, op, tool, session_id, kwargs, NoState, "none", FALSE) EXCEPT !.pre = "store_error"]
       IN /\ session_id # None
          /\ inv' = [inv EXCEPT ![p] = Finish(rec, "exception", "state_store")]
    /\ Same
    /\ UNCHANGED <<cfg, PENDING_ARGS, payments, ncalls, paidReported>>
    /\ UNCHANGED clockVars

\* one attempt of run_elicitation_loop, and what the wrapper does when the
\* loop ends with it
ElicitAttempt(p, e) ==
    /\ inv[p].pc = "elicit"
    /\ inv[p].attempt < max_attempts
    /\ \E r \in AnswersWhen(elicit_action(inv[p].can_elicit, e) = "accept") :
       LET act == elicit_action(inv[p].can_elicit, e)
           rec == [inv[p] EXCEPT !.attempt = @ + 1, !.last = r, !.last_elicit = e,
                                 !.budget_out = (inv[p].attempt + 1 >= max_attempts),
                                 !.terminal_pids = IF r \in TerminalStatuses THEN @ \cup {inv[p].payment_id} ELSE @]
           sid == rec.sid
       IN /\ paidReported' = Reported(rec.payment_id, r)
          /\ IF act = "fail"
             THEN /\ inv' = [inv EXCEPT ![p] = Finish(rec, "exception", "elicitation_failed")]
                  /\ SetDb(update_payment_status(CurDb, sid, cfg.has_store, "timeout"), {}, None, NoneArgs)
                  /\ UNCHANGED ncalls
             ELSE IF act = "cancel"
             THEN /\ inv' = [inv EXCEPT ![p] = Finish([rec EXCEPT !.message = "Payment canceled by user"],
                                                      "exception", "canceled_by_user")]
                  /\ SetDb(update_payment_status(CurDb, sid, cfg.has_store, "timeout"), {}, None, NoneArgs)
                  /\ UNCHANGED ncalls
             ELSE IF r = Raise
             THEN /\ inv' = [inv EXCEPT ![p] = Finish(rec, "exception", "get_payment_status")]
                  /\ SetDb(update_payment_status(CurDb, sid, cfg.has_store, "timeout"), {}, None, NoneArgs)
                  /\ UNCHANGED ncalls
             ELSE IF r = "paid"
             THEN /\ inv' = [inv EXCEPT ![p] = Call(rec, rec.kwargs, "elicitation")]
                  /\ SetDb(update_payment_status(CurDb, sid, cfg.has_store, "paid"), {}, None, NoneArgs)
                  /\ ncalls' = ncalls + 1
             ELSE IF r = "canceled"
             THEN /\ inv' = [inv EXCEPT ![p] = Envelope(rec, "canceled", "none", "Payment canceled by user",
                                                        rec.payment_id, rec.payment_url, "none")]
                  /\ SetDb(cleanup_payment_state(CurDb, sid, cfg.has_store), {}, None, NoneArgs)
                  /\ UNCHANGED ncalls
             ELSE IF rec.attempt < max_attempts
             THEN /\ inv' = [inv EXCEPT ![p] = [rec EXCEPT !.last = "none", !.last_elicit = "none"]]
                  /\ Same
                  /\ UNCHANGED ncalls
             ELSE /\ inv' = [inv EXCEPT ![p] = Envelope(rec, "pending", "none",
                                                        "payment not received yet", rec.payment_id, rec.payment_url, rec.tool)]
                  /\ SetDb(update_payment_status(CurDb, sid, cfg.has_store, "pending"), {rec.payment_id}, None, NoneArgs)
                  /\ UNCHANGED ncalls
    /\ UNCHANGED <<cfg, PENDING_ARGS, payments>>
    /\ UNCHANGED clockVars

\* -------------------------------------------------------- the original tool
\* the original tool returns: what the wrapper does after the call
ToolReturn(p) ==
    /\ inv[p].pc = "call"
    /\ LET rec == inv[p] IN
       IF rec.after = "raw"
       THEN /\ inv' = [inv EXCEPT ![p] = Finish(rec, "result", "none")]
            /\ Same
            /\ UNCHANGED PENDING_ARGS
       ELSE IF rec.after = "confirm"
       THEN LET st == cleanup_payment_args(CurDb, PENDING_ARGS, rec.state_key, rec.payment_id, cfg.has_store)
            IN /\ inv' = [inv EXCEPT ![p] = Envelope(rec, "success", "none", "Tool completed after payment",
                                                     rec.payment_id, None, "none")]
               /\ SetDb(st.db, {}, None, NoneArgs)
               /\ PENDING_ARGS' = st.pend
       ELSE IF rec.after = "progress"
       THEN /\ inv' = [inv EXCEPT ![p] = Finish(rec, "result", "none")]
            /\ SetDb(progress_delete(CurDb, rec.sid, cfg.has_store), {}, None, NoneArgs)
            /\ UNCHANGED PENDING_ARGS
       ELSE /\ inv' = [inv EXCEPT ![p] = Envelope(rec, "success", "none", "Tool completed after payment",
                                                  rec.payment_id, None, "none")]
            /\ SetDb(cleanup_payment_state(CurDb, rec.sid, cfg.has_store), {}, None, NoneArgs)
            /\ UNCHANGED PENDING_ARGS
    /\ UNCHANGED <<cfg, payments, ncalls, paidReported>>
    /\ UNCHANGED clockVars

\* The original tool raises.  The exception leaves the wrapper, which cleans
\* nothing up; only the progress wrapper, whose immediate execution sits in
\* the try block of the status check, deletes the state again and goes on
\* to create a new payment (c is what create_payment does then).
ToolRaise(p, c) ==
    /\ inv[p].pc = "call"
    /\ LET rec == inv[p] IN
       IF rec.op = "progress" /\ rec.after = "raw"
       THEN LET db == progress_delete(CurDb, rec.sid, cfg.has_store) IN
            IF c = Raise
            THEN /\ inv' = [inv EXCEPT ![p] = Finish(rec, "exception", "create_payment")]
                 /\ SetDb(db, {}, None, NoneArgs)
                 /\ UNCHANGED payments
            ELSE /\ payments < MaxPayments
                 /\ SetDb(progress_create(db, rec.sid, cfg.has_store, NextPid, rec.tool, rec.kwargs), {}, NextPid, rec.kwargs)
                 /\ payments' = payments + 1
                 /\ inv' = [inv EXCEPT ![p] = [Created(rec, NextPid) EXCEPT !.pc = "poll", !.last = "none"]]
       ELSE /\ c = "ok"
            /\ inv' = [inv EXCEPT ![p] = Finish(rec, "tool_exception", "none")]
            /\ Same
            /\ UNCHANGED payments
    /\ UNCHANGED <<cfg, PENDING_ARGS, ncalls, paidReported>>
    /\ UNCHANGED clockVars

\* ------------------------------------------------------------ specification
\* no store operation recorded
NoOp == [name |-> "none", arg |-> None, ret |-> NoState, expired |-> NoState]

\* no store operation between its two writes
\* no pure function applied
NotApplied == [name |-> "none"]

\* a thread that is inside no store operation
NoThread == [pc |-> "idle", key |-> NoKey, payment_id |-> None, local |-> None]

NoPending == [name |-> "none", key |-> NoKey, value |-> NoState, old |-> NoState]

InitCommon ==
    /\ store = [k \in SessionKeys \cup Pids |-> NoState]
    /\ payment_index = [q \in Pids |-> NoKey]
    /\ PENDING_ARGS = [q \in Pids |-> NoneArgs]
    /\ payments = 0
    /\ inv = [p \in Procs |-> Idle]
    /\ ncalls = 0
    /\ paidReported = {}
    /\ initArgs = [q \in Pids |-> NoneArgs]
    /\ exhausted = {}
    /\ now = 0
    /\ ttl_seconds = 3600
    /\ last_cleanup = 0
    /\ lastop = NoOp
    /\ pending_op = NoPending
    /\ threads = [t \in Procs |-> NoThread]
    /\ applied = NotApplied

\* one coordinator with one paid tool, one flow, invocations one after another
Init ==
    /\ cfg \in [flow : Flows, has_store : BOOLEAN, procs : {1}, tools : {{"T"}}]
    /\ InitCommon

Next ==
    \/ \E p \in Procs, ctx \in FlowContexts, tool \in AllTools, kwargs \in ArgChoices, c \in {"ok", Raise} :
          TwoStepInitiate(p, ctx, tool, kwargs, c)
    \/ \E p \in Procs, tool \in AllTools, payment_id \in Pids : TwoStepConfirm(p, tool, payment_id)
    \/ \E p \in Procs, ctx \in FlowContexts, tool \in AllTools, kwargs \in ArgChoices, c \in {"ok", Raise} :
          ProgressStart(p, ctx, tool, kwargs, c)
    \/ \E p \in Procs, r \in StatusAnswers : ProgressPoll(p, r)
    \/ \E p \in Procs, ctx \in FlowContexts, tool \in AllTools, kwargs \in ArgChoices, c \in {"ok", Raise} :
          ElicitationStart(p, ctx, tool, kwargs, c)
    \/ \E p \in Procs, e \in ElicitAnswers : ElicitAttempt(p, e)
    \/ \E p \in Procs, ctx \in FlowContexts, tool \in AllTools, kwargs \in ArgChoices :
          StoreReadRaises(p, ctx, tool, kwargs)
    \/ \E p \in Procs : ToolReturn(p)
    \/ \E p \in Procs, c \in {"ok", Raise} : ToolRaise(p, c)

Spec == Init /\ [][Next]_vars

\* ------------------------------------------------------------------ claims
StateOf(key) == InMemoryStore_get(CurDb, key)

HasSession(p) == cfg.has_store /\ inv[p].sid # None

\* C1: in every flow the original handler is invoked only after a
\* get_payment_status call of the same wrapper invocation returned paid.
C1_InvokedOnlyAfterPaid ==
    \A p \in Procs : inv[p].pc = "call" => inv[p].last = "paid"

C1_Witness ==
    \E p \in Procs : inv[p].pc = "call" /\ inv[p].op = "confirm" /\ inv[p].last = "paid"

\* C2: with a state store, when the provider has reported paid for exactly
\* one payment, the original handler has been called exactly once in total.
C2_CalledExactlyOnce ==
    (cfg.has_store /\ Cardinality(paidReported) = 1) => ncalls = 1

\* C3: an invocation that reuses a pending payment and sees paid in its own
\* polling or elicitation loop invokes the handler with the arguments the
\* payment was created with.
C3_ReusedPaymentRunsInitialArgs ==
    \A p \in Procs :
        (inv[p].pc = "call" /\ inv[p].reused /\ inv[p].after \in {"progress", "elicitation"})
            => inv[p].call_args = initArgs[inv[p].payment_id]

\* C4: two-step flow with a state store, any context: the confirmation that
\* follows the initiation of T(A), with the provider reporting paid, invokes
\* T with exactly A.
C4_ConfirmRunsInitialArgs ==
    \A p \in Procs :
        (cfg.has_store /\ inv[p].op = "confirm" /\ inv[p].payment_id = inv[p].prev_created
           /\ inv[p].pre \in {"paid", "none"})
            => (inv[p].called /\ inv[p].call_args = initArgs[inv[p].payment_id])

\* C5: when the provider reports the stored payment of the session pending
\* or processing, the initiation that follows one answered with a pending
\* envelope creates no payment and carries the same payment_id and
\* payment_url.
C5_IdempotentInitiation ==
    \A p \in Procs :
        (inv[p].op \in {"initiate", "elicitation"} /\ inv[p].pre \in {"pending", "processing"}
           /\ inv[p].prev_pending # None)
            => /\ ~inv[p].created
               /\ inv[p].payment_id = inv[p].prev_pending
               /\ inv[p].payment_url = Url(inv[p].prev_pending)
               /\ inv[p].outcome = "pending" =>
                      (inv[p].ret_pid = inv[p].prev_pending /\ inv[p].ret_url = Url(inv[p].prev_pending))

C5_Witness ==
    \E p \in Procs :
        /\ inv[p].pc = "done" /\ inv[p].op = "initiate" /\ inv[p].pre = "pending"
        /\ inv[p].prev_pending # None /\ inv[p].outcome = "pending" /\ inv[p].ret_pid = inv[p].prev_pending

\* C6: after a progress or elicitation invocation exhausted its budget, a
\* later invocation on the session whose status query returns paid invokes
\* the tool at once with the stored arguments over its own, creates no
\* payment and leaves no state for the session.
C6_RecoveryAfterExhaustion ==
    \A p \in Procs :
        (inv[p].op \in {"progress", "elicitation"} /\ inv[p].pre = "paid" /\ inv[p].pre_exhausted)
            => /\ inv[p].called /\ inv[p].call_args = Merge(inv[p].kwargs, inv[p].pre_init)
               /\ ~inv[p].created
               /\ StateOf(inv[p].sid) = NoState

\* C7: a progress invocation that exhausts max_wait with none of its status
\* queries answered paid or terminal does not invoke the tool and keeps the
\* state of the session, same payment_id, with status timeout.
C7_TimeoutKeepsState ==
    \A p \in Procs :
        (inv[p].pc = "done" /\ inv[p].op = "progress" /\ inv[p].budget_out
           /\ inv[p].last \in {"pending", "processing"} /\ inv[p].pre \in {"none", "pending", "processing"})
            => /\ ~inv[p].called
               /\ inv[p].outcome = "exception" /\ inv[p].reason = "timeout"
               /\ HasSession(p) => (StateOf(inv[p].sid).payment_id = inv[p].payment_id
                                    /\ StateOf(inv[p].sid).status = "timeout")

C7_Witness ==
    \E p \in Procs :
        /\ inv[p].pc = "done" /\ inv[p].op = "progress" /\ inv[p].budget_out
        /\ inv[p].last = "processing" /\ inv[p].pre = "pending" /\ HasSession(p)
        /\ StateOf(inv[p].sid).status = "timeout"

C9_UserCancelEnvelope ==
    \A p \in Procs :
        (inv[p].pc = "done" /\ inv[p].op = "elicitation" /\ inv[p].last_elicit \in {"cancel", "decline"})
            => /\ inv[p].outcome = "canceled" /\ inv[p].message = "Payment canceled by user"
               /\ ~inv[p].called
               /\ StateOf(inv[p].sid) = NoState

\* C10: in every flow, when an invocation that received canceled, expired or
\* failed from get_payment_status ends, the store holds no state of the
\* session for the payment so reported.
C10_TerminalStatusCleansUp ==
    \A p \in Procs :
        (inv[p].pc = "done" /\ inv[p].terminal_pids # {})
            => StateOf(IF inv[p].op = "confirm" THEN inv[p].state_key ELSE inv[p].sid).payment_id
                   \notin inv[p].terminal_pids

\* C11: two-step flow, two confirmations of one payment_id in a row with the
\* provider reporting paid: the first invokes the tool and, the tool having
\* returned, answers success; the second does not invoke the tool and
\* answers error invalid_payment_id.
C11_SecondConfirmRejected ==
    \A p \in Procs :
        /\ (inv[p].op = "confirm" /\ inv[p].pre = "paid")
              => (inv[p].called /\ (inv[p].pc = "done" /\ inv[p].outcome # "tool_exception" => inv[p].outcome = "success"))
        /\ (inv[p].pc = "done" /\ inv[p].op = "confirm" /\ inv[p].prev_confirmed = inv[p].payment_id
               /\ inv[p].pre \in {"paid", "none"})
              => (~inv[p].called /\ inv[p].outcome = "error" /\ inv[p].reason = "invalid_payment_id")

\* C12: a confirmation answered with a status other than paid returns error
\* payment_not_complete without invoking the tool and leaves the store, its
\* payment-id index and the legacy map as they were; the confirmation of the
\* same payment_id that follows, the provider now reporting paid, invokes
\* the tool with the stored arguments.
C12_Refused(p) ==
    (Free(p) /\ inv'[p] # inv[p] /\ inv'[p].op = "confirm"
       /\ inv'[p].pre \in ProviderStatuses \ {"paid"})
        => /\ inv'[p].pc = "done" /\ ~inv'[p].called
           /\ inv'[p].outcome = "error" /\ inv'[p].reason = "payment_not_complete"
           /\ UNCHANGED <<store, payment_index, PENDING_ARGS>>

C12_Later(p) ==
    (inv[p].op = "confirm" /\ inv[p].prev_incomplete = inv[p].payment_id /\ inv[p].pre \in {"paid", "none"})
        => (inv[p].called /\ (inv[p].pc = "call" => inv[p].call_args = initArgs[inv[p].payment_id]))

MaxTime == 500          \* the clock runs from 0 to MaxTime

StoreKeys == {"k1", "k2"}
StorePids == {"P1", "P2"}
TickSeconds == {100}
TtlChoices == {100, 400}
cleanup_interval == 300

\* a state handed to put: the caller's fields, timestamp set by put
Value(key, pid) == [payment_id |-> pid, session_id |-> key, timestamp |-> 0]

\* the store with its timing field, and the value an operation returns
Timed(db, lc, value, expired) == [db |-> db, last_cleanup |-> lc, value |-> value, expired |-> expired]

IsExpired(value, t, ttl) == t - value.timestamp > ttl

ExpiredKeys(db, t, ttl) ==
    { k \in DOMAIN db.store : db.store[k] # NoState /\ IsExpired(db.store[k], t, ttl) }

RECURSIVE DeleteEach(_, _)
DeleteEach(db, keys) ==
    IF keys = {} THEN db
    ELSE LET k == CHOOSE x \in keys : TRUE
         IN DeleteEach(InMemoryStore_delete_with_index(db, k), keys \ {k})

InMemoryStore_cleanup_if_needed(db, lc, t, ttl) ==
    IF t - lc < cleanup_interval THEN Timed(db, lc, NoState, NoState)
    ELSE Timed(DeleteEach(db, ExpiredKeys(db, t, ttl)), t, NoState, NoState)

InMemoryStore_put_at(db, lc, key, value, t, ttl) ==
    LET c == InMemoryStore_cleanup_if_needed(db, lc, t, ttl)
    IN Timed(InMemoryStore_put(c.db, key, [value EXCEPT !.timestamp = t]), c.last_cleanup, NoState, NoState)

\* get without the lazy delete: the expired state is hidden but kept
InMemoryStore_get_at_keeping(db, lc, key, t, ttl) ==
    LET c == InMemoryStore_cleanup_if_needed(db, lc, t, ttl)
        value == c.db.store[key]
    IN IF value = NoState THEN Timed(c.db, c.last_cleanup, NoState, NoState)
       ELSE IF IsExpired(value, t, ttl)
            THEN Timed(c.db, c.last_cleanup, NoState, value)
       ELSE Timed(c.db, c.last_cleanup, value, NoState)

InMemoryStore_get_at(db, lc, key, t, ttl) ==
    LET c == InMemoryStore_cleanup_if_needed(db, lc, t, ttl)
        value == c.db.store[key]
    IN IF value = NoState THEN Timed(c.db, c.last_cleanup, NoState, NoState)
       ELSE IF IsExpired(value, t, ttl)
            THEN Timed(InMemoryStore_delete_with_index(c.db, key), c.last_cleanup, NoState, value)
       ELSE Timed(c.db, c.last_cleanup, value, NoState)

InMemoryStore_get_by_payment_id_at(db, lc, payment_id, t, ttl) ==
    IF payment_id \notin DOMAIN db.payment_index \/ db.payment_index[payment_id] = NoKey
    THEN Timed(db, lc, NoState, NoState)
    ELSE InMemoryStore_get_at(db, lc, db.payment_index[payment_id], t, ttl)

InMemoryStore_delete_at(db, lc, key) == Timed(InMemoryStore_delete(db, key), lc, NoState, NoState)

\* the step leaves the store as the operation returned it
StoreResult(name, arg, res) ==
    /\ store' = res.db.store
    /\ payment_index' = res.db.payment_index
    /\ last_cleanup' = res.last_cleanup
    /\ lastop' = [name |-> name, arg |-> arg, ret |-> res.value, expired |-> res.expired]
    /\ UNCHANGED <<now, ttl_seconds, pending_op, threads, applied>>
    /\ UNCHANGED flowVars

StorePut(key, pid) ==
    /\ cfg.flow = "store"
    /\ StoreResult("put", key, InMemoryStore_put_at(CurDb, last_cleanup, key, Value(key, pid), now, ttl_seconds))

StoreGet(key) ==
    /\ cfg.flow = "store"
    /\ StoreResult("get", key, InMemoryStore_get_at(CurDb, last_cleanup, key, now, ttl_seconds))

StoreGetByPaymentId(payment_id) ==
    /\ cfg.flow = "store"
    /\ StoreResult("get_by_payment_id", payment_id,
                   InMemoryStore_get_by_payment_id_at(CurDb, last_cleanup, payment_id, now, ttl_seconds))

StoreDelete(key) ==
    /\ cfg.flow = "store"
    /\ StoreResult("delete", key, InMemoryStore_delete_at(CurDb, last_cleanup, key))

StoreTick(d) ==
    /\ cfg.flow = "store"
    /\ now + d <= MaxTime
    /\ now' = now + d
    /\ lastop' = NoOp
    /\ UNCHANGED <<store, payment_index, ttl_seconds, last_cleanup, pending_op, threads, applied>>
    /\ UNCHANGED flowVars

StoreInit ==
    /\ cfg = [flow |-> "store", has_store |-> TRUE, procs |-> 0, tools |-> {}]
    /\ store = [k \in StoreKeys |-> NoState]
    /\ payment_index = [q \in StorePids |-> NoKey]
    /\ PENDING_ARGS = [q \in StorePids |-> NoneArgs]
    /\ payments = 0
    /\ inv = [p \in Procs |-> Idle]
    /\ ncalls = 0
    /\ paidReported = {}
    /\ initArgs = [q \in StorePids |-> NoneArgs]
    /\ exhausted = {}
    /\ now = 0
    /\ ttl_seconds \in TtlChoices
    /\ last_cleanup = 0
    /\ lastop = NoOp
    /\ pending_op = NoPending
    /\ threads = [t \in Procs |-> NoThread]
    /\ applied = NotApplied

StoreNext ==
    \/ \E key \in StoreKeys, pid \in StorePids \cup {None} : StorePut(key, pid)
    \/ \E key \in StoreKeys : StoreGet(key)
    \/ \E payment_id \in StorePids : StoreGetByPaymentId(payment_id)
    \/ \E key \in StoreKeys : StoreDelete(key)
    \/ \E d \in TickSeconds : StoreTick(d)

StoreSpec == StoreInit /\ [][StoreNext]_vars

\* what the two lookups answer in the current state
Lookup(key) == InMemoryStore_get_at(CurDb, last_cleanup, key, now, ttl_seconds).value

LookupByPaymentId(payment_id) ==
    InMemoryStore_get_by_payment_id_at(CurDb, last_cleanup, payment_id, now, ttl_seconds).value

Held(key) == store[key] # NoState

Unexpired(key) == Held(key) /\ ~IsExpired(store[key], now, ttl_seconds)

\* C13: in the in-memory store every unexpired state that has a payment_id
\* is what get_by_payment_id of that payment_id returns, and once a key is
\* deleted neither get of the key nor get_by_payment_id of its payment_id
\* returns the deleted state.
C13_Reachable ==
    \A k \in StoreKeys :
        (Unexpired(k) /\ store[k].payment_id # None) => LookupByPaymentId(store[k].payment_id) = store[k]

C13_Deleted ==
    \A k \in StoreKeys :
        (Held(k) /\ lastop'.name = "delete" /\ lastop'.arg = k)
            => /\ Lookup(k)' = NoState
               /\ store[k].payment_id # None => LookupByPaymentId(store[k].payment_id)' # store[k]

C13_IndexFindsEveryState ==
    [][C13_Reachable' /\ C13_Deleted]_vars

\* C14: in the in-memory store the payment-id index and the primary map
\* never disagree: every index entry payment_id -> key has the key present
\* in the primary map with a state of that payment_id.
C14_IndexAgreesWithStore ==
    \A q \in StorePids :
        (cfg.flow = "store" /\ payment_index[q] # NoKey)
            => (Held(payment_index[q]) /\ store[payment_index[q]].payment_id = q)

\* ------------------------------------------------------ the external store
\* RedisStore keeps the primary entries (paymcp:<key>) and the index entries
\* (paymcp:idx:payment:<payment_id>) as separate keys of the server, so put
\* and delete are two commands each.  A step is one command; the process can
\* stop between the two commands of an operation.  store holds the primary
\* entries and payment_index the index entries.  Expiry by the server and
\* commands that fail are left out.
Pending(name, key, value, old) == [name |-> name, key |-> key, value |-> value, old |-> old]

\* client.setex(redis_key, ttl, json_data)
RedisStore_put_primary(db, key, value) == Db([db.store EXCEPT ![key] = value], db.payment_index)

\* if payment_id: client.setex(index_key, ttl, key)
RedisStore_put_index(db, key, value) ==
    IF value.payment_id # None
    THEN Db(db.store, [db.payment_index EXCEPT ![value.payment_id] = key])
    ELSE db

\* a delete that removes the primary entry in its first command
RedisStore_delete_primary_first(db, key) == Db([db.store EXCEPT ![key] = NoState], db.payment_index)

\* data = client.get(redis_key); if it has a payment_id: client.delete(index_key)
RedisStore_delete_index(db, key) ==
    IF db.store[key] # NoState /\ db.store[key].payment_id # None
    THEN Db(db.store, [db.payment_index EXCEPT ![db.store[key].payment_id] = NoKey])
    ELSE db

\* client.delete(redis_key)
RedisStore_delete_primary(db, key) == Db([db.store EXCEPT ![key] = NoState], db.payment_index)

RedisStore_get(db, key) == db.store[key]

RedisStore_get_by_payment_id(db, payment_id) ==
    IF db.payment_index[payment_id] = NoKey THEN NoState
    ELSE RedisStore_get(db, db.payment_index[payment_id])

\* a command leaves the server as db
RedisResult(db, op, pend) ==
    /\ store' = db.store
    /\ payment_index' = db.payment_index
    /\ lastop' = op
    /\ pending_op' = pend
    /\ UNCHANGED <<now, ttl_seconds, last_cleanup, threads, applied>>
    /\ UNCHANGED flowVars

Done(name, arg, ret) == [name |-> name, arg |-> arg, ret |-> ret, expired |-> NoState]

RedisPutFirst(key, pid) ==
    /\ cfg.flow = "redis"
    /\ pending_op = NoPending
    /\ RedisResult(RedisStore_put_primary(CurDb, key, Value(key, pid)), NoOp,
                   Pending("put", key, Value(key, pid), store[key]))

RedisPutSecond ==
    /\ cfg.flow = "redis"
    /\ pending_op.name = "put"
    /\ RedisResult(RedisStore_put_index(CurDb, pending_op.key, pending_op.value),
                   Done("put", pending_op.key, pending_op.value), NoPending)

RedisDeleteFirst(key) ==
    /\ cfg.flow = "redis"
    /\ pending_op = NoPending
    /\ RedisResult(RedisStore_delete_index(CurDb, key), NoOp, Pending("delete", key, NoState, store[key]))

RedisDeleteSecond ==
    /\ cfg.flow = "redis"
    /\ pending_op.name = "delete"
    /\ RedisResult(RedisStore_delete_primary(CurDb, pending_op.key), Done("delete", pending_op.key, NoState), NoPending)

RedisGet(key) ==
    /\ cfg.flow = "redis"
    /\ pending_op = NoPending
    /\ RedisResult(CurDb, Done("get", key, RedisStore_get(CurDb, key)), NoPending)

RedisGetByPaymentId(payment_id) ==
    /\ cfg.flow = "redis"
    /\ pending_op = NoPending
    /\ RedisResult(CurDb, Done("get_by_payment_id", payment_id, RedisStore_get_by_payment_id(CurDb, payment_id)), NoPending)

\* the process stops between the two commands of a put or a delete
RedisStop ==
    /\ cfg.flow = "redis"
    /\ pending_op # NoPending
    /\ RedisResult(CurDb, Done("stop", pending_op.name, NoState), NoPending)

RedisInit ==
    /\ cfg = [flow |-> "redis", has_store |-> TRUE, procs |-> 0, tools |-> {}]
    /\ store = [k \in StoreKeys |-> NoState]
    /\ payment_index = [q \in StorePids |-> NoKey]
    /\ PENDING_ARGS = [q \in StorePids |-> NoneArgs]
    /\ payments = 0
    /\ inv = [p \in Procs |-> Idle]
    /\ ncalls = 0
    /\ paidReported = {}
    /\ initArgs = [q \in StorePids |-> NoneArgs]
    /\ exhausted = {}
    /\ now = 0
    /\ ttl_seconds = 3600
    /\ last_cleanup = 0
    /\ lastop = NoOp
    /\ pending_op = NoPending
    /\ threads = [t \in Procs |-> NoThread]
    /\ applied = NotApplied

RedisNext ==
    \/ \E key \in StoreKeys, pid \in StorePids \cup {None} : RedisPutFirst(key, pid)
    \/ RedisPutSecond
    \/ \E key \in StoreKeys : RedisDeleteFirst(key)
    \/ RedisDeleteSecond
    \/ \E key \in StoreKeys : RedisGet(key)
    \/ \E payment_id \in StorePids : RedisGetByPaymentId(payment_id)
    \/ RedisStop

RedisSpec == RedisInit /\ [][RedisNext]_vars

\* C15: a put of s2 over a state s1 that has another payment_id replaces s1
\* and removes s1's index entry: afterwards get of the key returns s2 and
\* get_by_payment_id of s1's payment_id returns nothing.
C15_InMemory ==
    \A k \in StoreKeys :
        (cfg.flow = "store" /\ lastop'.name = "put" /\ lastop'.arg = k /\ Unexpired(k)
           /\ store[k].payment_id # None /\ store'[k].payment_id # None
           /\ store'[k].payment_id # store[k].payment_id)
            => /\ InMemoryStore_get_at(Db(store', payment_index'), last_cleanup', k, now', ttl_seconds').value = store'[k]
               /\ InMemoryStore_get_by_payment_id_at(Db(store', payment_index'), last_cleanup',
                                                     store[k].payment_id, now', ttl_seconds').value = NoState

C15_External ==
    (cfg.flow = "redis" /\ pending_op.name = "put" /\ lastop'.name = "put"
       /\ pending_op.old # NoState /\ pending_op.old.payment_id # None
       /\ pending_op.value.payment_id # None
       /\ pending_op.value.payment_id # pending_op.old.payment_id)
        => /\ RedisStore_get(Db(store', payment_index'), pending_op.key) = pending_op.value
           /\ RedisStore_get_by_payment_id(Db(store', payment_index'), pending_op.old.payment_id) = NoState

C15_OverwriteDropsOldIndex ==
    [][C15_InMemory /\ C15_External]_vars

\* C16: in the in-memory store a state written at time t is returned by
\* neither get nor get_by_payment_id once the clock is past t + ttl_seconds,
\* and the get or get_by_payment_id that finds it expired leaves neither the
\* state under its key nor an index entry for its payment_id.
C16_Invisible ==
    \A k \in StoreKeys :
        (Held(k) /\ now > store[k].timestamp + ttl_seconds)
            => /\ Lookup(k) = NoState
               /\ \A q \in StorePids : LookupByPaymentId(q) # store[k]

C16_Returned ==
    (lastop.name \in {"get", "get_by_payment_id"} /\ lastop.ret # NoState)
        => now <= lastop.ret.timestamp + ttl_seconds

C16_Removed ==
    lastop.expired # NoState
        => /\ store[lastop.expired.session_id] = NoState
           /\ lastop.expired.payment_id # None => payment_index[lastop.expired.payment_id] = NoKey

C16_ExpiredStateInvisible ==
    cfg.flow = "store" => (C16_Invisible /\ C16_Returned /\ C16_Removed)

C16_Witness ==
    /\ cfg.flow = "store"
    /\ lastop.name = "get_by_payment_id"
    /\ lastop.expired # NoState
    /\ lastop.expired.payment_id = lastop.arg
    /\ now > lastop.expired.timestamp + ttl_seconds

(***************************************************************************)
(* The in-memory store under threads.  InMemoryStore holds no lock, so     *)
(* the threads interleave between any two operations on its dictionaries.  *)
(* A thread's pc names the dictionary operation it performs next.  The     *)
(* clock stands still here: _cleanup_if_needed returns at once and no      *)
(* state is expired.                                                       *)
(***************************************************************************)
Thread(pc, key, payment_id) == [pc |-> pc, key |-> key, payment_id |-> payment_id, local |-> None]

Raised == [NoThread EXCEPT !.pc = "raised"]

KeyInStore(db, key) == db.store[key] # NoState

InIndex(db, payment_id) == db.payment_index[payment_id] # NoKey

Stepped(db, th) == [db |-> db, th |-> th]

\* put: key in self.store; self.store[key].get('payment_id');
\* old_payment_id in self.payment_index; del self.payment_index[old_payment_id];
\* self.payment_index[payment_id] = key; self.store[key] = value
InMemoryStore_put_step(db, th) ==
    CASE th.pc = "put_key_in_store" ->
            Stepped(db, [th EXCEPT !.pc = IF KeyInStore(db, th.key) THEN "put_old_payment_id" ELSE "put_index"])
      [] th.pc = "put_old_payment_id" ->
            IF ~KeyInStore(db, th.key) THEN Stepped(db, Raised)
            ELSE LET old_payment_id == db.store[th.key].payment_id
                 IN Stepped(db, [th EXCEPT !.local = old_payment_id,
                                           !.pc = IF old_payment_id # None THEN "put_old_in_index" ELSE "put_index"])
      [] th.pc = "put_old_in_index" ->
            Stepped(db, [th EXCEPT !.pc = IF InIndex(db, th.local) THEN "put_del_old" ELSE "put_index"])
      [] th.pc = "put_del_old" ->
            IF ~InIndex(db, th.local) THEN Stepped(db, Raised)
            ELSE Stepped(Db(db.store, [db.payment_index EXCEPT ![th.local] = NoKey]), [th EXCEPT !.pc = "put_index"])
      [] th.pc = "put_index" ->
            Stepped(Db(db.store, [db.payment_index EXCEPT ![th.payment_id] = th.key]), [th EXCEPT !.pc = "put_store"])
      [] th.pc = "put_store" ->
            Stepped(Db([db.store EXCEPT ![th.key] = Value(th.key, th.payment_id)], db.payment_index), NoThread)

\* get: key not in self.store; value = self.store[key]
InMemoryStore_get_step(db, th) ==
    CASE th.pc = "get_key_in_store" ->
            Stepped(db, IF KeyInStore(db, th.key) THEN [th EXCEPT !.pc = "get_value"] ELSE NoThread)
      [] th.pc = "get_value" ->
            Stepped(db, IF KeyInStore(db, th.key) THEN NoThread ELSE Raised)

\* get_by_payment_id: payment_id not in self.payment_index;
\* key = self.payment_index[payment_id]; return self.get(key)
InMemoryStore_get_by_payment_id_step(db, th) ==
    CASE th.pc = "index_has_payment_id" ->
            Stepped(db, IF InIndex(db, th.payment_id) THEN [th EXCEPT !.pc = "index_key"] ELSE NoThread)
      [] th.pc = "index_key" ->
            Stepped(db, IF InIndex(db, th.payment_id)
                        THEN Thread("get_key_in_store", db.payment_index[th.payment_id], None)
                        ELSE Raised)

\* _delete_with_index: key in self.store; self.store[key].get('payment_id');
\* payment_id in self.payment_index; del self.payment_index[payment_id];
\* del self.store[key]
InMemoryStore_delete_step(db, th) ==
    CASE th.pc = "delete_key_in_store" ->
            Stepped(db, IF KeyInStore(db, th.key) THEN [th EXCEPT !.pc = "delete_payment_id"] ELSE NoThread)
      [] th.pc = "delete_payment_id" ->
            IF ~KeyInStore(db, th.key) THEN Stepped(db, Raised)
            ELSE LET payment_id == db.store[th.key].payment_id
                 IN Stepped(db, [th EXCEPT !.local = payment_id,
                                           !.pc = IF payment_id # None THEN "delete_in_index" ELSE "delete_store"])
      [] th.pc = "delete_in_index" ->
            Stepped(db, [th EXCEPT !.pc = IF InIndex(db, th.local) THEN "delete_index" ELSE "delete_store"])
      [] th.pc = "delete_index" ->
            IF ~InIndex(db, th.local) THEN Stepped(db, Raised)
            ELSE Stepped(Db(db.store, [db.payment_index EXCEPT ![th.local] = NoKey]), [th EXCEPT !.pc = "delete_store"])
      [] th.pc = "delete_store" ->
            IF ~KeyInStore(db, th.key) THEN Stepped(db, Raised)
            ELSE Stepped(Db([db.store EXCEPT ![th.key] = NoState], db.payment_index), NoThread)

PutPcs == {"put_key_in_store", "put_old_payment_id", "put_old_in_index", "put_del_old", "put_index", "put_store"}
GetPcs == {"get_key_in_store", "get_value"}
GetByPaymentIdPcs == {"index_has_payment_id", "index_key"}
DeletePcs == {"delete_key_in_store", "delete_payment_id", "delete_in_index", "delete_index", "delete_store"}

\* thread t is between operations (the last one returned or raised)
Outside(t) == threads[t].pc \in {"idle", "raised"}

ThreadResult(t, res) ==
    /\ store' = res.db.store
    /\ payment_index' = res.db.payment_index
    /\ threads' = [threads EXCEPT ![t] = res.th]
    /\ UNCHANGED <<now, ttl_seconds, last_cleanup, lastop, pending_op, applied>>
    /\ UNCHANGED flowVars

ThreadPut(t, key, pid) ==
    /\ cfg.flow = "threads"
    /\ Outside(t)
    /\ ThreadResult(t, Stepped(CurDb, Thread(IF pid # None THEN "put_key_in_store" ELSE "put_store", key, pid)))

ThreadGet(t, key) ==
    /\ cfg.flow = "threads"
    /\ Outside(t)
    /\ ThreadResult(t, Stepped(CurDb, Thread("get_key_in_store", key, None)))

ThreadGetByPaymentId(t, payment_id) ==
    /\ cfg.flow = "threads"
    /\ Outside(t)
    /\ ThreadResult(t, Stepped(CurDb, Thread("index_has_payment_id", NoKey, payment_id)))

ThreadDelete(t, key) ==
    /\ cfg.flow = "threads"
    /\ Outside(t)
    /\ ThreadResult(t, Stepped(CurDb, Thread("delete_key_in_store", key, None)))

ThreadPutStep(t) ==
    /\ cfg.flow = "threads"
    /\ threads[t].pc \in PutPcs
    /\ ThreadResult(t, InMemoryStore_put_step(CurDb, threads[t]))

ThreadGetStep(t) ==
    /\ cfg.flow = "threads"
    /\ threads[t].pc \in GetPcs
    /\ ThreadResult(t, InMemoryStore_get_step(CurDb, threads[t]))

ThreadGetByPaymentIdStep(t) ==
    /\ cfg.flow = "threads"
    /\ threads[t].pc \in GetByPaymentIdPcs
    /\ ThreadResult(t, InMemoryStore_get_by_payment_id_step(CurDb, threads[t]))

ThreadDeleteStep(t) ==
    /\ cfg.flow = "threads"
    /\ threads[t].pc \in DeletePcs
    /\ ThreadResult(t, InMemoryStore_delete_step(CurDb, threads[t]))

ThreadInit ==
    /\ cfg = [flow |-> "threads", has_store |-> TRUE, procs |-> 0, tools |-> {}]
    /\ store = [k \in StoreKeys |-> NoState]
    /\ payment_index = [q \in StorePids |-> NoKey]
    /\ PENDING_ARGS = [q \in StorePids |-> NoneArgs]
    /\ payments = 0
    /\ inv = [p \in Procs |-> Idle]
    /\ ncalls = 0
    /\ paidReported = {}
    /\ initArgs = [q \in StorePids |-> NoneArgs]
    /\ exhausted = {}
    /\ now = 0
    /\ ttl_seconds = 3600
    /\ last_cleanup = 0
    /\ lastop = NoOp
    /\ pending_op = NoPending
    /\ threads = [t \in Procs |-> NoThread]
    /\ applied = NotApplied

ThreadNext ==
    \E t \in Procs :
        \/ \E key \in StoreKeys, pid \in StorePids \cup {None} : ThreadPut(t, key, pid)
        \/ \E key \in StoreKeys : ThreadGet(t, key)
        \/ \E payment_id \in StorePids : ThreadGetByPaymentId(t, payment_id)
        \/ \E key \in StoreKeys : ThreadDelete(t, key)
        \/ ThreadPutStep(t)
        \/ ThreadGetStep(t)
        \/ ThreadGetByPaymentIdStep(t)
        \/ ThreadDeleteStep(t)

ThreadSpec == ThreadInit /\ [][ThreadNext]_vars

\* C17: with threads interleaving put, get, get_by_payment_id and delete on
\* one in-memory store no operation raises, and whenever every thread is
\* outside an operation each stored state with a payment_id is indexed under
\* it and each index entry names a key that holds a state with that
\* payment_id.
C17_NoRaise == \A t \in Procs : threads[t].pc # "raised"

C17_Agree ==
    /\ \A k \in StoreKeys :
           (store[k] # NoState /\ store[k].payment_id # None)
               => payment_index[store[k].payment_id] = k
    /\ \A q \in StorePids :
           payment_index[q] # NoKey
               => (store[payment_index[q]] # NoState /\ store[payment_index[q]].payment_id = q)

C17_ThreadSafe ==
    cfg.flow = "threads"
        => /\ C17_NoRaise
           /\ (\A t \in Procs : Outside(t)) => C17_Agree

\* C18: an invocation whose existing-payment check could not read the state
\* store does not end with an exception; it goes on as if the store held no
\* state and creates a new payment.
C18_ReadFailureIsAbsent ==
    \A p \in Procs :
        inv[p].pre = "store_error"
            => /\ inv[p].outcome # "exception"
               /\ inv[p].pc = "done" => inv[p].created

\* the index entries that name a key with no primary entry
Dangling == { q \in StorePids : payment_index[q] # NoKey /\ store[payment_index[q]] = NoState }

\* C19: in the external store the first command of a put writes the primary
\* entry and leaves the index alone, the first command of a delete removes
\* the index entry of the stored state and leaves the primary entry alone,
\* and neither a half-done put or delete nor stopping in the middle of one
\* adds an index entry that names a key with no primary entry.
C19_PutPrimaryFirst ==
    pending_op'.name = "put"
        => /\ store'[pending_op'.key] = pending_op'.value
           /\ payment_index' = payment_index

C19_DeleteIndexFirst ==
    pending_op'.name = "delete"
        => /\ store' = store
           /\ pending_op'.old.payment_id # None => payment_index'[pending_op'.old.payment_id] = NoKey

C19_NoNewDangling ==
    (pending_op' # NoPending \/ lastop'.name = "stop") => Dangling' \subseteq Dangling

C20_Ended(p) == inv[p].pc = "done" /\ inv[p].pre # "store_error"

C20_NoEscapingException ==
    \A p \in Procs :
        C20_Ended(p)
            => /\ inv[p].outcome \in {"error", "canceled", "pending", "success", "result", "tool_exception"}
               /\ (inv[p].reason \in {"create_payment", "get_payment_status", "elicitation_failed", "timeout"}
                     \/ (inv[p].budget_out /\ inv[p].last \notin {"paid"} \cup TerminalStatuses /\ ~inv[p].called))
                   => inv[p].outcome \in {"error", "canceled", "pending"}

\* the keys under which the store holds a state of the payment
KeysOf(payment_id) == { k \in DOMAIN store : store[k] # NoState /\ store[k].payment_id = payment_id }

\* C21: in every flow an invocation that called the original tool ends with
\* the tool's return or with the tool's exception, and when it ends with the
\* tool's exception the store holds no state of the payment that was paid.
C21_Propagates(p) ==
    (inv[p].called /\ inv[p].pc # "call")
        => (inv[p].pc = "done" /\ inv[p].outcome \in {"result", "success", "tool_exception"})

C21_CleanedUp(p) ==
    (inv[p].pc = "done" /\ inv[p].outcome = "tool_exception")
        => KeysOf(inv[p].payment_id) = {}

C21_HandlerExceptionPropagates ==
    \A p \in Procs : C21_Propagates(p) /\ C21_CleanedUp(p)

(***************************************************************************)
(* The progress flow with a client that can abort.  The client sets        *)
(* ctx.signal.aborted while the invocation waits between two polls (only   *)
(* invocations whose context gave a session are followed).  The wrapper    *)
(* never reads the signal: is_client_aborted is defined in utils/flow.py   *)
(* and is not called from the poll loop, so ProgressPoll goes on as in     *)
(* the main specification.                                                 *)
(***************************************************************************)
is_client_aborted(rec) == rec.aborted

ClientAborts(p) ==
    /\ cfg.flow = "progress"
    /\ inv[p].pc = "poll"
    /\ inv[p].sid # None
    /\ ~is_client_aborted(inv[p])
    /\ inv' = [inv EXCEPT ![p].aborted = TRUE]
    /\ Same
    /\ UNCHANGED <<cfg, PENDING_ARGS, payments, ncalls, paidReported>>
    /\ UNCHANGED clockVars

AbortInit ==
    /\ cfg \in [flow : {"progress"}, has_store : BOOLEAN, procs : {1}, tools : {{"T"}}]
    /\ InitCommon

AbortNext ==
    \/ \E p \in Procs, ctx \in FlowContexts, tool \in AllTools, kwargs \in ArgChoices, c \in {"ok", Raise} :
          ProgressStart(p, ctx, tool, kwargs, c)
    \/ \E p \in Procs, r \in StatusAnswers : ProgressPoll(p, r)
    \/ \E p \in Procs : ClientAborts(p)
    \/ \E p \in Procs : ToolReturn(p)
    \/ \E p \in Procs, c \in {"ok", Raise} : ToolRaise(p, c)
    \/ \E p \in Procs, ctx \in FlowContexts, tool \in AllTools, kwargs \in ArgChoices :
          StoreReadRaises(p, ctx, tool, kwargs)

AbortSpec == AbortInit /\ [][AbortNext]_vars

\* C22: in the progress flow, when the abort signal of the context is set at
\* the end of a poll interval, the invocation ends there with a canceled
\* envelope, the state of its session is removed and the tool is not called.
C22_AbortedPoll(p) ==
    /\ inv[p].pc = "poll"
    /\ is_client_aborted(inv[p])
    /\ inv'[p] # inv[p]

C22_AbortCancels ==
    [][\A p \in Procs :
          C22_AbortedPoll(p)
              => /\ inv'[p].pc = "done"
                 /\ inv'[p].outcome = "canceled"
                 /\ ~inv'[p].called
                 /\ cfg.has_store => store'[inv[p].sid] = NoState]_vars

(***************************************************************************)
(* The elicitation flow called with contexts of every kind, among them a   *)
(* context that carries a session and has no elicit method.                *)
(***************************************************************************)
ElicitContexts == FlowContexts \cup { Ctx("s1", ABSENT, ABSENT, ABSENT, ABSENT, FALSE) }

ElicitInit ==
    /\ cfg \in [flow : {"elicitation"}, has_store : BOOLEAN, procs : {1}, tools : {{"T"}}]
    /\ InitCommon

ElicitNext ==
    \/ \E p \in Procs, ctx \in ElicitContexts, tool \in AllTools, kwargs \in ArgChoices, c \in {"ok", Raise} :
          ElicitationStart(p, ctx, tool, kwargs, c)
    \/ \E p \in Procs, e \in ElicitAnswers : ElicitAttempt(p, e)
    \/ \E p \in Procs : ToolReturn(p)
    \/ \E p \in Procs, c \in {"ok", Raise} : ToolRaise(p, c)
    \/ \E p \in Procs, ctx \in ElicitContexts, tool \in AllTools, kwargs \in ArgChoices :
          StoreReadRaises(p, ctx, tool, kwargs)

ElicitSpec == ElicitInit /\ [][ElicitNext]_vars

\* C23: under the elicitation flow an invocation whose context has no elicit
\* method is refused at once: it has ended with an error, it created no
\* payment, it did not call the tool, and the store holds no state of its
\* session.
C23_NoElicit(p) == inv[p].op = "elicitation" /\ ~inv[p].can_elicit /\ inv[p].pre # "store_error"

C23_MissingElicitRejected ==
    \A p \in Procs :
        C23_NoElicit(p)
            => /\ inv[p].pc = "done"
               /\ inv[p].outcome \in {"error", "exception"}
               /\ ~inv[p].created
               /\ ~inv[p].called
               /\ HasSession(p) => StateOf(inv[p].sid) = NoState

(***************************************************************************)
(* The two-step flow of a coordinator with two paid tools: a payment left  *)
(* by one tool can be found by an initiation of the other tool in the      *)
(* same session.                                                           *)
(***************************************************************************)
TwoToolInit ==
    /\ cfg \in [flow : {"two_step"}, has_store : BOOLEAN, procs : {1}, tools : {AllTools}]
    /\ InitCommon

TwoToolNext ==
    \/ \E p \in Procs, ctx \in FlowContexts, tool \in AllTools, kwargs \in ArgChoices, c \in {"ok", Raise} :
          TwoStepInitiate(p, ctx, tool, kwargs, c)
    \/ \E p \in Procs, tool \in AllTools, payment_id \in Pids : TwoStepConfirm(p, tool, payment_id)
    \/ \E p \in Procs : ToolReturn(p)
    \/ \E p \in Procs, c \in {"ok", Raise} : ToolRaise(p, c)

TwoToolSpec == TwoToolInit /\ [][TwoToolNext]_vars

\* C24: when the existing-payment check of an initiation finds the stored
\* payment of the session paid, the state is deleted and the tool is called
\* at once; check_existing_payment returns the stored arguments when the
\* stored tool_name is the invoked tool's name and none otherwise, and in
\* the latter case the tool runs with the arguments of the current call.
C24_FoundPaid(p) ==
    /\ inv[p].pc # "call"
    /\ inv'[p].pc = "call"
    /\ inv'[p].op = "initiate"
    /\ inv'[p].pre = "paid"

C24_PaidExecutesAtOnce ==
    [][\A p \in Procs :
          C24_FoundPaid(p)
              => LET state == StateOf(inv'[p].sid)
                     ex == check_existing_payment(CurDb, inv'[p].sid, cfg.has_store, inv'[p].tool, "paid")
                 IN /\ state # NoState
                    /\ store'[inv'[p].sid] = NoState
                    /\ ex.should_execute
                    /\ ex.payment_id = state.payment_id
                    /\ ex.stored_args = IF state.tool_name = inv'[p].tool THEN state.tool_args ELSE NoneArgs
                    /\ inv'[p].called
                    /\ state.tool_name # inv'[p].tool => inv'[p].call_args = inv'[p].kwargs]_vars

C24_Witness ==
    \E p \in Procs :
        /\ inv[p].pc = "call" /\ inv[p].op = "initiate" /\ inv[p].pre = "paid"
        /\ inv[p].pre_init # NoneArgs
        /\ inv[p].pre_init # inv[p].kwargs
        /\ inv[p].call_args = inv[p].kwargs
        /\ StateOf(inv[p].sid) = NoState

\* C25: when the status query of the existing-payment check raises, the
\* stored state of the session is deleted and the invocation goes on as one
\* that found no payment: in that step it does not call the tool and does
\* not reuse the stored payment, and it either creates a fresh payment, whose
\* state is then the only one of the session, or fails in create_payment.
C25_QueryRaised(p) ==
    /\ Free(p)
    /\ inv'[p] # inv[p]
    /\ inv'[p].op \in {"initiate", "progress", "elicitation"}
    /\ inv'[p].pre = Raise

C25_FailedQueryStartsAfresh ==
    [][\A p \in Procs :
          C25_QueryRaised(p)
              => LET rec == inv'[p]
                     old == StateOf(rec.sid)
                 IN /\ old # NoState /\ old.payment_id = rec.pre_pid
                    /\ ~rec.called
                    /\ ~rec.reused
                    /\ rec.payment_id # old.payment_id
                    /\ \/ /\ rec.created
                          /\ store'[rec.sid] # NoState
                          /\ store'[rec.sid].payment_id = rec.payment_id
                       \/ /\ rec.pc = "done" /\ rec.outcome = "exception" /\ rec.reason = "create_payment"
                          /\ store'[rec.sid] = NoState]_vars

C25_Witness ==
    \E p \in Procs :
        /\ inv[p].op \in {"initiate", "progress", "elicitation"}
        /\ inv[p].pre = Raise
        /\ inv[p].created
        /\ inv[p].pre_pid # None
        /\ inv[p].payment_id # inv[p].pre_pid
        /\ StateOf(inv[p].sid) # NoState
        /\ StateOf(inv[p].sid).payment_id = inv[p].payment_id

(***************************************************************************)
(* The success envelope.  A Python value is a record tagged with its type; *)
(* a dict is a function from its keys, with strings as the values of a     *)
(* tool's own keys.                                                        *)
(***************************************************************************)
PyNone == [type |-> "none"]
PyStr(v) == [type |-> "str", v |-> v]
PyInt(n) == [type |-> "int", n |-> n]
PyDict(d) == [type |-> "dict", d |-> d]

\* bool(x) of a payment_id
Truthy(x) == (x.type = "str" /\ x.v # "") \/ (x.type = "int" /\ x.n # 0)

Digits == <<"0", "1", "2", "3", "4", "5", "6", "7", "8", "9">>

\* str(payment_id), for a string or a one-digit integer
Str(x) == IF x.type = "int" THEN Digits[x.n + 1] ELSE x.v

\* build_response(message, status, payment_id=payment_id, raw_result=raw_result):
\* the optional fields this call leaves out are None and add no key
build_response(message, status, payment_id, raw_result) ==
    LET keys == {"message", "status"}
                  \cup (IF Truthy(payment_id) THEN {"payment_id"} ELSE {})
                  \cup (IF raw_result # PyNone THEN {"raw"} ELSE {})
    IN [k \in keys |-> CASE k = "message" -> message
                         [] k = "status" -> status
                         [] k = "payment_id" -> Str(payment_id)
                         [] k = "raw" -> raw_result]

\* a success wrapping that sets status whatever the tool returned
build_success_response_overwriting(tool_result, payment_id) ==
    IF tool_result.type = "dict"
    THEN LET d == tool_result.d
             keys == DOMAIN d \cup {"status"}
                       \cup (IF Truthy(payment_id) THEN {"payment_id"} ELSE {})
         IN [k \in keys |-> IF k = "status" THEN "success"
                            ELSE IF k \in DOMAIN d THEN d[k]
                            ELSE Str(payment_id)]
    ELSE build_response("Tool completed after payment", "success", payment_id, tool_result)

build_success_response(tool_result, payment_id) ==
    IF tool_result.type = "dict"
    THEN LET d == tool_result.d
             keys == DOMAIN d \cup {"status"}
                       \cup (IF Truthy(payment_id) THEN {"payment_id"} ELSE {})
         IN [k \in keys |-> IF k \in DOMAIN d THEN d[k]
                            ELSE IF k = "payment_id" THEN Str(payment_id)
                            ELSE "success"]
    ELSE build_response("Tool completed after payment", "success", payment_id, tool_result)

\* the results of a tool: dicts over some of three keys, and values that are no dict
ToolDicts ==
    UNION { [keys -> {"a", "b"}] : keys \in SUBSET {"payment_id", "status", "text"} }

ToolResults == { PyDict(d) : d \in ToolDicts } \cup { PyStr("done"), PyInt(7), PyNone }

PaymentIdArgs == { PyNone, PyStr(""), PyStr("PID1"), PyInt(7) }

NoEnvelope == [none |-> TRUE]

ResponseApplied(tool_result, payment_id, out, again) ==
    [name |-> "build_success_response", tool_result |-> tool_result, payment_id |-> payment_id,
     out |-> out, again |-> again]

\* result = build_success_response(tool_result, payment_id)
BuildSuccess ==
    /\ cfg.flow = "response"
    /\ applied.out = NoEnvelope
    /\ applied' = [applied EXCEPT !.out = build_success_response(applied.tool_result, applied.payment_id)]
    /\ UNCHANGED <<store, payment_index, now, ttl_seconds, last_cleanup, lastop, pending_op, threads>>
    /\ UNCHANGED flowVars

\* build_success_response(result, payment_id) once more, on the envelope
BuildSuccessAgain ==
    /\ cfg.flow = "response"
    /\ applied.out # NoEnvelope
    /\ applied.again = NoEnvelope
    /\ applied' = [applied EXCEPT !.again = build_success_response(PyDict(applied.out), applied.payment_id)]
    /\ UNCHANGED <<store, payment_index, now, ttl_seconds, last_cleanup, lastop, pending_op, threads>>
    /\ UNCHANGED flowVars

ResponseInit ==
    /\ cfg = [flow |-> "response", has_store |-> FALSE, procs |-> 0, tools |-> {}]
    /\ store = [k \in StoreKeys |-> NoState]
    /\ payment_index = [q \in StorePids |-> NoKey]
    /\ PENDING_ARGS = [q \in StorePids |-> NoneArgs]
    /\ payments = 0
    /\ inv = [p \in Procs |-> Idle]
    /\ ncalls = 0
    /\ paidReported = {}
    /\ initArgs = [q \in StorePids |-> NoneArgs]
    /\ exhausted = {}
    /\ now = 0
    /\ ttl_seconds = 3600
    /\ last_cleanup = 0
    /\ lastop = NoOp
    /\ pending_op = NoPending
    /\ threads = [t \in Procs |-> NoThread]
    /\ \E tool_result \in ToolResults, payment_id \in PaymentIdArgs :
           applied = ResponseApplied(tool_result, payment_id, NoEnvelope, NoEnvelope)

ResponseNext == BuildSuccess \/ BuildSuccessAgain

ResponseSpec == ResponseInit /\ [][ResponseNext]_vars

\* C26: build_success_response changes no key of a dict-shaped result and
\* adds to it only payment_id, where missing, and status success, where
\* missing; any other result it places under raw; and applied to its own
\* output with the same payment_id it returns an equal envelope.
C26_Built == cfg.flow = "response" /\ applied.out # NoEnvelope

C26_DictKept ==
    applied.tool_result.type = "dict"
        => LET d == applied.tool_result.d
               out == applied.out
           IN /\ \A k \in DOMAIN d : k \in DOMAIN out /\ out[k] = d[k]
              /\ DOMAIN out \subseteq DOMAIN d \cup {"payment_id", "status"}
              /\ "status" \in DOMAIN out
              /\ "status" \notin DOMAIN d => out["status"] = "success"
              /\ ("payment_id" \notin DOMAIN d /\ "payment_id" \in DOMAIN out)
                     => (Truthy(applied.payment_id) /\ out["payment_id"] = Str(applied.payment_id))
              /\ ("payment_id" \notin DOMAIN d /\ Truthy(applied.payment_id)) => "payment_id" \in DOMAIN out

C26_Idempotent == applied.again # NoEnvelope => applied.again = applied.out

C26_RawAlways ==
    applied.tool_result.type # "dict"
        => ("raw" \in DOMAIN applied.out /\ applied.out["raw"] = applied.tool_result)

C26_SuccessWrapping ==
    C26_Built => (C26_DictKept /\ C26_RawAlways /\ C26_Idempotent)

\* C26 as amended: a result that is neither a dict nor None is placed under
\* raw with status success, and a None result gives an envelope with no raw key.
C26_RawUnlessNone ==
    applied.tool_result.type # "dict"
        => /\ applied.out["status"] = "success"
           /\ applied.tool_result # PyNone
                  => ("raw" \in DOMAIN applied.out /\ applied.out["raw"] = applied.tool_result)
           /\ applied.tool_result = PyNone => "raw" \notin DOMAIN applied.out

C26_SuccessWrappingAmended ==
    C26_Built => (C26_DictKept /\ C26_RawUnlessNone /\ C26_Idempotent)

C26_Witness ==
    /\ cfg.flow = "response"
    /\ applied.again # NoEnvelope
    /\ applied.tool_result.type = "dict"
    /\ DOMAIN applied.tool_result.d = {"status", "text"}
    /\ applied.payment_id = PyInt(7)
    /\ applied.out["payment_id"] = "7"
    /\ applied.out["status"] = applied.tool_result.d["status"]


\* ------------------------------------------------- status updates on the store
\* Sessions save a state for a payment the provider has just created, update
\* its status and clean it up, in any order; a session id of None is a call
\* without a session.
UpdateSessions == {None} \cup StoreKeys
UpdateStatuses == {"paid", "timeout", "pending"}

UpdateApplied(session_id, status, before) ==
    [name |-> "update_payment_status", session_id |-> session_id, status |-> status, before |-> before]

UpdateLeaves(db) ==
    /\ store' = db.store
    /\ payment_index' = db.payment_index
    /\ UNCHANGED <<cfg, PENDING_ARGS, inv, ncalls, paidReported, initArgs, exhausted>>
    /\ UNCHANGED <<now, ttl_seconds, last_cleanup, lastop, pending_op, threads>>

\* save_payment_state(session_id, state_store, payment_id, payment_url, tool_name, tool_args, status)
UpdateSave(session_id, tool_name, tool_args, status) ==
    /\ cfg.flow = "update"
    /\ payments < MaxPayments
    /\ UpdateLeaves(save_payment_state(Db(store, payment_index), session_id, cfg.has_store,
                                       NextPid, tool_name, tool_args, status))
    /\ payments' = payments + 1
    /\ applied' = NotApplied

\* update_payment_status(session_id, state_store, status)
UpdateStatus(session_id, status) ==
    /\ cfg.flow = "update"
    /\ UpdateLeaves(update_payment_status(Db(store, payment_index), session_id, cfg.has_store, status))
    /\ applied' = UpdateApplied(session_id, status, Db(store, payment_index))
    /\ UNCHANGED payments

\* cleanup_payment_state(session_id, state_store)
UpdateCleanup(session_id) ==
    /\ cfg.flow = "update"
    /\ InMemoryStore_get(Db(store, payment_index), session_id) # NoState
    /\ UpdateLeaves(cleanup_payment_state(Db(store, payment_index), session_id, cfg.has_store))
    /\ applied' = NotApplied
    /\ UNCHANGED payments

UpdateInit ==
    /\ \E hs \in BOOLEAN : cfg = [flow |-> "update", has_store |-> hs, procs |-> 0, tools |-> AllTools]
    /\ store = [k \in StoreKeys |-> NoState]
    /\ payment_index = [q \in Pids |-> NoKey]
    /\ PENDING_ARGS = [q \in Pids |-> NoneArgs]
    /\ payments = 0
    /\ inv = [p \in Procs |-> Idle]
    /\ ncalls = 0
    /\ paidReported = {}
    /\ initArgs = [q \in Pids |-> NoneArgs]
    /\ exhausted = {}
    /\ now = 0
    /\ ttl_seconds = 3600
    /\ last_cleanup = 0
    /\ lastop = NoOp
    /\ pending_op = NoPending
    /\ threads = [t \in Procs |-> NoThread]
    /\ applied = NotApplied

UpdateNext ==
    \/ \E session_id \in UpdateSessions, tool_name \in AllTools, tool_args \in ArgChoices,
          status \in {"requested", "pending"} : UpdateSave(session_id, tool_name, tool_args, status)
    \/ \E session_id \in UpdateSessions, status \in UpdateStatuses : UpdateStatus(session_id, status)
    \/ \E session_id \in StoreKeys : UpdateCleanup(session_id)

UpdateSpec == UpdateInit /\ [][UpdateNext]_vars

\* the store before the update, the store after it, and the two states of the session
C27_Updated == applied # NotApplied /\ applied.name = "update_payment_status"

C27_Old == InMemoryStore_get(applied.before, applied.session_id)

C27_New == InMemoryStore_get(Db(store, payment_index), applied.session_id)

C27_HadState == applied.session_id # None /\ cfg.has_store /\ C27_Old # NoState

C27_NothingWritten == Db(store, payment_index) = applied.before

\* the fields of the claim keep their values and the index keeps its entry
C27_FieldsKept ==
    /\ C27_New # NoState
    /\ C27_New.status = applied.status
    /\ C27_New.session_id = C27_Old.session_id
    /\ C27_New.payment_id = C27_Old.payment_id
    /\ C27_New.payment_url = C27_Old.payment_url
    /\ C27_New.tool_name = C27_Old.tool_name
    /\ C27_New.tool_args = C27_Old.tool_args
    /\ payment_index = applied.before.payment_index
    /\ payment_index[C27_Old.payment_id] = applied.session_id
    /\ \A k \in StoreKeys \ {applied.session_id} : store[k] = applied.before.store[k]

\* C27 as stated: update_payment_status changes only the status field of the
\* stored state; session_id, payment_id, payment_url, tool_name and tool_args
\* are unchanged, no other field is added, the index still maps the
\* payment_id to the same key, and without a state nothing is written.
C27_UpdateFrame ==
    C27_Updated =>
        IF C27_HadState
        THEN C27_FieldsKept /\ C27_New.status_at = C27_Old.status_at
        ELSE C27_NothingWritten

\* C27 amended: update_payment_status changes the status field and adds one
\* field, the timestamp status_<status>_at of the status it sets; the five
\* other fields are unchanged, no further field is added, the index still
\* maps the payment_id to the same key, and without a state nothing is written.
C27_UpdateFrameAmended ==
    C27_Updated =>
        IF C27_HadState
        THEN C27_FieldsKept /\ C27_New.status_at = C27_Old.status_at \cup {applied.status}
        ELSE C27_NothingWritten

\* a second status is set on a state that already carries one status timestamp
C27_Witness ==
    /\ C27_Updated
    /\ C27_HadState
    /\ C27_Old.status_at # {}
    /\ applied.status \notin C27_Old.status_at
    /\ C27_New.status = applied.status


\* ------------------------------------------------ the session key of a flow
\* Every shape of context: each probed location is absent or holds a value of
\* its own, so the key tells which location it was read from.
KeyContexts ==
    {NoCtx} \cup { Ctx(a, b, c, d, r, TRUE) : a \in {ABSENT, "a"}, b \in {ABSENT, "b"}, c \in {ABSENT, "c"},
                                              d \in {ABSENT, "d"}, r \in {ABSENT, "r"} }

KeyNames == {"a", "b", "c", "d", "req_r"}

Unset == "unset"

KeyApplied(ctx, key) == [name |-> "session_key", ctx |-> ctx, key |-> key]

\* the wrapper derives its session id and stores the state of a new payment under it
KeyState(session_id) ==
    /\ applied.key = Unset
    /\ applied' = [applied EXCEPT !.key = session_id]
    /\ LET db == save_payment_state(Db(store, payment_index), session_id, cfg.has_store,
                                    NextPid, "T", [k \in {"x"} |-> 1], "requested")
       IN store' = db.store /\ payment_index' = db.payment_index
    /\ payments' = payments + 1
    /\ UNCHANGED <<cfg, PENDING_ARGS, inv, ncalls, paidReported, initArgs, exhausted>>
    /\ UNCHANGED <<now, ttl_seconds, last_cleanup, lastop, pending_op, threads>>

\* _initiate_wrapper: session_id = extract_session_id(ctx)
TwoStepKey ==
    /\ cfg.flow = "two_step"
    /\ KeyState(extract_session_id(applied.ctx))

\* _progress_wrapper: its own probing of ctx.session
ProgressKey ==
    /\ cfg.flow = "progress"
    /\ KeyState(progress_session_id(applied.ctx))

\* _elicitation_wrapper: session_id = extract_session_id(ctx)
ElicitationKey ==
    /\ cfg.flow = "elicitation"
    /\ KeyState(extract_session_id(applied.ctx))

KeyInit ==
    /\ \E f \in Flows : cfg = [flow |-> f, has_store |-> TRUE, procs |-> 0, tools |-> {"T"}]
    /\ store = [k \in KeyNames |-> NoState]
    /\ payment_index = [q \in Pids |-> NoKey]
    /\ PENDING_ARGS = [q \in Pids |-> NoneArgs]
    /\ payments = 0
    /\ inv = [p \in Procs |-> Idle]
    /\ ncalls = 0
    /\ paidReported = {}
    /\ initArgs = [q \in Pids |-> NoneArgs]
    /\ exhausted = {}
    /\ now = 0
    /\ ttl_seconds = 3600
    /\ last_cleanup = 0
    /\ lastop = NoOp
    /\ pending_op = NoPending
    /\ threads = [t \in Procs |-> NoThread]
    /\ \E ctx \in KeyContexts : applied = KeyApplied(ctx, Unset)

KeyNext == TwoStepKey \/ ProgressKey \/ ElicitationKey

KeySpec == KeyInit /\ [][KeyNext]_vars

\* the values found at the probed locations, in the order of the claim
C28_Probes(ctx) ==
    IF ctx.none THEN << >>
    ELSE SelectSeq(<<ctx.session_id, ctx.session_obj_id, ctx.session_obj_session_id, ctx.meta_session_id,
                     IF ctx.request_id = ABSENT THEN ABSENT ELSE "req_" \o ctx.request_id>>,
                   LAMBDA v : v # ABSENT)

C28_Keyed == applied # NotApplied /\ applied.name = "session_key" /\ applied.key # Unset

\* C28: for any call context, each of the three flows keys its state by the
\* same session id: the first value found when probing ctx.session_id,
\* ctx.session.id, ctx.session.session_id, ctx.meta['session_id'], and
\* otherwise req_<request_id>.
C28_SameSessionKey ==
    C28_Keyed =>
        /\ Len(C28_Probes(applied.ctx)) > 0 =>
               /\ applied.key = Head(C28_Probes(applied.ctx))
               /\ store[Head(C28_Probes(applied.ctx))] # NoState
        /\ Len(C28_Probes(applied.ctx)) = 0 => applied.key = None


\* ------------------------------------- contexts that yield only a request id
\* Clients without a session: the context carries a request id and nothing
\* else.  The client chooses the id, so two calls can carry the same one.
RequestIds == {"r1", "r2"}

ReqContexts == { Ctx(ABSENT, ABSENT, ABSENT, ABSENT, r, TRUE) : r \in RequestIds }

ReqKeys == { "req_" \o r : r \in RequestIds }

ReqInit ==
    /\ cfg \in [flow : {"two_step", "progress"}, has_store : {TRUE}, procs : {1}, tools : {{"T"}}]
    /\ store = [k \in ReqKeys \cup Pids |-> NoState]
    /\ payment_index = [q \in Pids |-> NoKey]
    /\ PENDING_ARGS = [q \in Pids |-> NoneArgs]
    /\ payments = 0
    /\ inv = [p \in Procs |-> Idle]
    /\ ncalls = 0
    /\ paidReported = {}
    /\ initArgs = [q \in Pids |-> NoneArgs]
    /\ exhausted = {}
    /\ now = 0
    /\ ttl_seconds = 3600
    /\ last_cleanup = 0
    /\ lastop = NoOp
    /\ pending_op = NoPending
    /\ threads = [t \in Procs |-> NoThread]
    /\ applied = NotApplied

ReqNext ==
    \/ \E p \in Procs, ctx \in ReqContexts, tool \in AllTools, kwargs \in ArgChoices, c \in {"ok", Raise} :
          TwoStepInitiate(p, ctx, tool, kwargs, c)
    \/ \E p \in Procs, tool \in AllTools, payment_id \in Pids : TwoStepConfirm(p, tool, payment_id)
    \/ \E p \in Procs, ctx \in ReqContexts, tool \in AllTools, kwargs \in ArgChoices, c \in {"ok", Raise} :
          ProgressStart(p, ctx, tool, kwargs, c)
    \/ \E p \in Procs, r \in StatusAnswers : ProgressPoll(p, r)
    \/ \E p \in Procs, ctx \in ReqContexts, tool \in AllTools, kwargs \in ArgChoices :
          StoreReadRaises(p, ctx, tool, kwargs)
    \/ \E p \in Procs : ToolReturn(p)
    \/ \E p \in Procs, c \in {"ok", Raise} : ToolRaise(p, c)

ReqSpec == ReqInit /\ [][ReqNext]_vars

\* an invocation of a paid tool that has passed its existing-payment check
C29_Started(p) == inv[p].op \in {"initiate", "progress", "elicitation"} /\ inv[p].pre # "store_error"

\* the invocation took over a stored payment: it waits on it again or runs the tool on it
C29_Recovered(p) == inv[p].reused \/ inv[p].pre = "paid"

\* under a req_ key nothing is reused or recovered
C29_NoReuseUnderRequestKey ==
    \A p \in Procs : C29_Started(p) /\ inv[p].sid \in ReqKeys => ~C29_Recovered(p)

\* the key is req_<request_id>
C29_UsesRequestKey ==
    \A p \in Procs : C29_Started(p) => inv[p].sid \in ReqKeys

\* C29: for a context that yields only a request id the flows use the key
\* req_<request_id>, and an invocation under such a key never reuses or
\* recovers a payment left by an earlier invocation.
C29_RequestKeyNotPersistent == C29_UsesRequestKey /\ C29_NoReuseUnderRequestKey


\* ------------------------------------------- exceptions of elicit, by their text
\* every exception text the loop tells apart: with or without the phrase
\* "unexpected elicitation action", naming accept, cancel, both or neither
ExceptionTexts ==
    {"exc_accept", "exc_cancel", "exc_accept_cancel", "exc_unknown_action",
     "exc_plain_accept", "exc_plain_cancel", "exc_other"}

ExcInit ==
    /\ cfg \in [flow : {"elicitation"}, has_store : BOOLEAN, procs : {1}, tools : {{"T"}}]
    /\ InitCommon

ExcNext ==
    \/ \E p \in Procs, tool \in AllTools, kwargs \in ArgChoices, c \in {"ok", Raise} :
          ElicitationStart(p, Ctx("s1", ABSENT, ABSENT, ABSENT, ABSENT, TRUE), tool, kwargs, c)
    \/ \E p \in Procs, e \in {"accept", "cancel"} \cup ExceptionTexts : ElicitAttempt(p, e)
    \/ \E p \in Procs : ToolReturn(p)
    \/ \E p \in Procs, c \in {"ok", Raise} : ToolRaise(p, c)

ExcSpec == ExcInit /\ [][ExcNext]_vars

\* the last answer of elicit to invocation p was an exception with text e
C30_Raised(p, e) == inv[p].op = "elicitation" /\ inv[p].can_elicit /\ inv[p].last_elicit = e

\* what a returned cancel action leads to
C30_AsUserCancel(p) ==
    inv[p].pc = "done" /\ inv[p].reason = "canceled_by_user" /\ inv[p].message = "Payment canceled by user"

\* the provider was asked for the status of the payment
C30_AsAccept(p) == inv[p].last \in StatusAnswers

\* the invocation failed and the state of the session stays, with status timeout
C30_Fatal(p) ==
    /\ inv[p].pc = "done"
    /\ inv[p].outcome = "exception"
    /\ inv[p].reason = "elicitation_failed"
    /\ ~inv[p].called
    /\ cfg.has_store => store[inv[p].sid] # NoState /\ store[inv[p].sid].status = "timeout"

\* C30 as stated: an exception from elicit whose text names cancel or decline
\* is handled as a user cancel, one whose text names accept as accept (the
\* provider is then asked), and any other exception ends the invocation as a
\* failure with the state of the session kept with status timeout.
C30_ExceptionByText ==
    \A p \in Procs, e \in ExceptionTexts :
        C30_Raised(p, e) =>
            /\ NamesCancel(e) /\ ~NamesAccept(e) => C30_AsUserCancel(p)
            /\ NamesAccept(e) /\ ~NamesCancel(e) => C30_AsAccept(p)
            /\ ~NamesAccept(e) /\ ~NamesCancel(e) => C30_Fatal(p)

\* C30 amended: an exception whose text holds "unexpected elicitation action"
\* and names accept is handled as accept (the provider is then asked); one
\* whose text holds that phrase and names cancel or decline but not accept is
\* handled as a user cancel; any other exception ends the invocation as a
\* failure with the state of the session kept with status timeout.
C30_ExceptionByPhrase ==
    \A p \in Procs, e \in ExceptionTexts :
        C30_Raised(p, e) =>
            /\ HasPhrase(e) /\ NamesAccept(e) => C30_AsAccept(p)
            /\ HasPhrase(e) /\ NamesCancel(e) /\ ~NamesAccept(e) => C30_AsUserCancel(p)
            /\ ~(HasPhrase(e) /\ (NamesAccept(e) \/ NamesCancel(e))) => C30_Fatal(p)

\* an exception that names accept without the phrase has ended the invocation
\* and left the stored state with status timeout
C30_Witness ==
    \E p \in Procs :
        /\ C30_Raised(p, "exc_plain_accept")
        /\ C30_Fatal(p)
        /\ cfg.has_store
        /\ store[inv[p].sid].status = "timeout"


\* ------------------------------------------------ the budgets of the two loops
\* the status query of the existing-payment check, made before the loop
C31_CheckQueries(p) == IF inv[p].pre \in StatusAnswers THEN 1 ELSE 0

\* invocation p takes a turn of its polling loop: one more status query
C31_Polls(p) == inv[p].op = "progress" /\ inv[p].pc = "poll" /\ inv'[p] # inv[p] /\ ~inv'[p].aborted

\* invocation p takes a turn of its elicitation loop: one more elicit call
C31_Elicits(p) == inv[p].op = "elicitation" /\ inv[p].pc = "elicit" /\ inv'[p] # inv[p]

\* the turn got an action accept from elicit and asked the provider
C31_ElicitQueries(p) ==
    ~(inv'[p].pc = "done" /\ inv'[p].reason \in {"elicitation_failed", "canceled_by_user"})

\* an invocation whose budget is used up is not left in its loop
C31_LoopEnds(p) ==
    /\ inv'[p].pc = "poll" => inv'[p].waited < MaxPolls * DEFAULT_POLL_SECONDS
    /\ inv'[p].pc = "elicit" => inv'[p].attempt < max_attempts

\* C31 as stated: every progress invocation ends after at most
\* max_wait / poll_interval status queries, every elicitation invocation
\* after at most max_attempts elicit calls and max_attempts status queries.
C31_BoundedQueries ==
    [][\A p \in Procs :
          /\ C31_Polls(p) =>
                 /\ C31_CheckQueries(p) + (inv[p].waited \div DEFAULT_POLL_SECONDS) + 1 <= MaxPolls
                 /\ C31_LoopEnds(p)
          /\ C31_Elicits(p) =>
                 /\ inv[p].attempt + 1 <= max_attempts
                 /\ C31_ElicitQueries(p) => C31_CheckQueries(p) + inv[p].attempt + 1 <= max_attempts
                 /\ C31_LoopEnds(p)]_vars

\* C31 amended: the polling loop of a progress invocation makes at most
\* max_wait / poll_interval status queries and the elicitation loop at most
\* max_attempts elicit calls and max_attempts status queries; the
\* existing-payment check before the loop adds at most one status query.
C31_BoundedLoops ==
    [][\A p \in Procs :
          /\ C31_Polls(p) =>
                 /\ (inv[p].waited \div DEFAULT_POLL_SECONDS) + 1 <= MaxPolls
                 /\ C31_CheckQueries(p) + (inv[p].waited \div DEFAULT_POLL_SECONDS) + 1 <= MaxPolls + 1
                 /\ C31_LoopEnds(p)
          /\ C31_Elicits(p) =>
                 /\ inv[p].attempt + 1 <= max_attempts
                 /\ C31_ElicitQueries(p) => C31_CheckQueries(p) + inv[p].attempt + 1 <= max_attempts + 1
                 /\ C31_LoopEnds(p)]_vars

\* an invocation that took over a stored payment after asking the provider
\* about it has used up the whole budget of its loop
C31_Witness ==
    \E p \in Procs :
        /\ inv[p].pc = "done"
        /\ inv[p].reused
        /\ inv[p].pre \in StatusAnswers
        /\ inv[p].budget_out
        /\ \/ inv[p].op = "progress" /\ inv[p].reason = "timeout"
           \/ inv[p].op = "elicitation" /\ inv[p].outcome = "pending"


\* ----------------------------------------- a stored payment found already paid
\* the existing-payment check of invocation p found the stored payment paid
C32_FoundPaid(p) == inv[p].op \in {"initiate", "progress", "elicitation"} /\ inv[p].pre = "paid"

\* the original tool has returned to the wrapper and the wrapper to its caller
C32_Returned(p) == inv[p].pc = "done" /\ inv[p].outcome # "tool_exception"

\* C32: in every flow, when the existing-payment check finds the stored
\* payment of the session already paid, the invocation calls the original tool
\* and returns its result wrapped as a success envelope carrying the
\* payment_id, and makes no create_payment call.
C32_PaidReturnsSuccessEnvelope ==
    \A p \in Procs :
        C32_FoundPaid(p) =>
            /\ inv[p].called
            /\ ~inv[p].created
            /\ C32_Returned(p) => inv[p].outcome = "success" /\ inv[p].ret_pid = inv[p].pre_pid


\* -------------------------------------- overlapping invocations, progress flow
\* Two invocations run on one event loop and share the session s1: each
\* suspends at the sleep of its polling loop and the other one runs.
OverlapInit ==
    /\ cfg \in [flow : {"progress"}, has_store : {TRUE}, procs : {2}, tools : {{"T"}}]
    /\ InitCommon

OverlapNext ==
    \/ \E p \in Procs :
          ProgressStart(p, Ctx(ABSENT, "s1", ABSENT, ABSENT, ABSENT, TRUE), "T", [k \in {"x"} |-> 1], "ok")
    \/ \E p \in Procs, r \in {"paid", "pending", "canceled"} : ProgressPoll(p, r)
    \/ \E p \in Procs : ToolReturn(p)
    \/ \E p \in Procs : ToolRaise(p, "ok")

OverlapSpec == OverlapInit /\ [][OverlapNext]_vars

\* invocation q took over the pending payment that invocation p holds
C33_Shares(p, q) ==
    /\ p # q
    /\ inv[p].op = "progress" /\ inv[q].op = "progress"
    /\ inv[q].reused
    /\ inv[p].payment_id # None
    /\ inv[p].payment_id = inv[q].payment_id

\* C33: under the progress flow, when two overlapping invocations on one
\* session share one payment, the provider reporting paid leads to exactly
\* one invocation of the original handler for that payment.
C33_SharedPaymentRunsOnce ==
    \A p, q \in Procs : C33_Shares(p, q) => ~(inv[p].called /\ inv[q].called)


\* ------------------------------------- overlapping invocations, two-step flow
\* Two invocations run on one event loop: a confirmation suspends while it
\* awaits the original handler, and the other invocation runs meanwhile.
ConfirmOverlapInit ==
    /\ cfg \in [flow : {"two_step"}, has_store : BOOLEAN, procs : {2}, tools : {{"T"}}]
    /\ InitCommon

ConfirmOverlapNext ==
    \/ \E p \in Procs :
          TwoStepInitiate(p, Ctx("s1", ABSENT, ABSENT, ABSENT, ABSENT, TRUE), "T", [k \in {"x"} |-> 1], "ok")
    \/ \E p \in Procs, payment_id \in Pids : TwoStepConfirm(p, "T", payment_id)
    \/ \E p \in Procs : ToolReturn(p)
    \/ \E p \in Procs : ToolRaise(p, "ok")

ConfirmOverlapSpec == ConfirmOverlapInit /\ [][ConfirmOverlapNext]_vars

\* confirmation p is awaiting the original handler for its payment
C34_Awaiting(p) == inv[p].op = "confirm" /\ inv[p].pc = "call"

\* C34: two overlapping calls of confirm_<tool>_payment with the same paid
\* payment_id, the second starting while the first awaits the original
\* handler, invoke the handler at most once in total.
C34_OverlappingConfirmsRunOnce ==
    \A p, q \in Procs :
        p # q /\ C34_Awaiting(p) /\ inv[q].op = "confirm" /\ inv[q].payment_id = inv[p].payment_id
            => ~inv[q].called


\* ------------------------------------------- two initiations racing to persist
\* The initiation of the two-step flow in two steps, split at the provider's
\* create_payment call: on worker threads another initiation runs while the
\* call is in flight.  The first step is the existing-payment check that
\* finds nothing, up to the payment the provider returns.
TwoStepObserve(p, ctx, tool, kwargs) ==
    /\ cfg.flow = "two_step"
    /\ CanStart(p, tool)
    /\ payments < MaxPayments
    /\ LET session_id == extract_session_id(ctx)
           ex == check_existing_payment(CurDb, session_id, cfg.has_store, tool, "none")
           rec == Begin(p, "initiate", tool, session_id, kwargs, NoState, "none", FALSE)
       IN /\ ~Asks(session_id)
          /\ ex.payment_id = None /\ ~ex.should_execute
          /\ inv' = [inv EXCEPT ![p] = [Created(rec, NextPid) EXCEPT !.pc = "persist"]]
          /\ SetDb(ex.db, {}, NextPid, kwargs)
    /\ payments' = payments + 1
    /\ UNCHANGED <<cfg, PENDING_ARGS, ncalls, paidReported>>
    /\ UNCHANGED clockVars

\* the second step: store_payment_args and the pending envelope
TwoStepPersist(p) ==
    /\ cfg.flow = "two_step"
    /\ inv[p].pc = "persist"
    /\ LET rec == inv[p]
           st == store_payment_args(CurDb, PENDING_ARGS, rec.sid, rec.payment_id, rec.tool, rec.kwargs, cfg.has_store)
       IN /\ store' = st.db.store
          /\ payment_index' = st.db.payment_index
          /\ PENDING_ARGS' = st.pend
          /\ inv' = [inv EXCEPT ![p] = Envelope(rec, "pending", "none", "payment required",
                                                rec.payment_id, rec.payment_url, confirm_tool_name(rec.tool))]
    /\ UNCHANGED <<cfg, payments, ncalls, paidReported, initArgs, exhausted>>
    /\ UNCHANGED clockVars

RaceInit ==
    /\ cfg \in [flow : {"two_step"}, has_store : {TRUE}, procs : {2}, tools : {AllTools}]
    /\ InitCommon

RaceNext ==
    \/ \E p \in Procs, ctx \in FlowContexts, tool \in AllTools, kwargs \in ArgChoices :
          TwoStepObserve(p, ctx, tool, kwargs)
    \/ \E p \in Procs : TwoStepPersist(p)

RaceSpec == RaceInit /\ [][RaceNext]_vars

\* invocation p persists second: the session already holds the state of a
\* payment that the other invocation created after observing no payment
C35_PersistsSecond(p) ==
    /\ inv[p].pc = "persist" /\ inv'[p].pc = "done"
    /\ inv[p].sid # None
    /\ store[inv[p].sid] # NoState
    /\ store[inv[p].sid].payment_id # inv[p].payment_id

\* C35: when two invocations on one session both observe no existing payment
\* and both create one, the store afterwards holds one state and one index
\* entry for the session; the state kept is the first writer's payment and
\* the second writer's payment is reachable by neither session id nor payment id.
C35_SecondWriterLoses ==
    [][\A p \in Procs :
          C35_PersistsSecond(p) =>
              /\ store'[inv[p].sid] # NoState
              /\ Cardinality({ q \in Pids : payment_index'[q] = inv[p].sid }) = 1
              /\ store'[inv[p].sid].payment_id = store[inv[p].sid].payment_id
              /\ payment_index'[inv[p].payment_id] = NoKey
              /\ store'[inv[p].payment_id] = NoState]_vars


\* --------------------------------------------- a payment and the tool it pays
\* confirmation p has passed its checks and is running its tool on the
\* arguments of a stored state
C36_Runs(p) == inv[p].op = "confirm" /\ inv[p].pc = "call" /\ inv[p].state_key # None

\* C36: confirm_<T>_payment invokes T only for a payment whose stored state
\* was created by an initiation of T: a payment created for another tool is
\* not accepted and T is not run with that tool's stored arguments.
C36_ConfirmOnlyOwnTool ==
    \A p \in Procs :
        C36_Runs(p) =>
            /\ store[inv[p].state_key] # NoState
            /\ store[inv[p].state_key].payment_id = inv[p].payment_id
            /\ store[inv[p].state_key].tool_name = inv[p].tool


\* -------------------------------------- another tool on the session's payment
\* invocation p of a tool begins on a session whose stored payment was
\* created for a different tool
C37_OtherTool(p) ==
    /\ Free(p) /\ inv'[p] # inv[p]
    /\ inv'[p].op = "initiate"
    /\ cfg.has_store
    /\ inv'[p].sid # None
    /\ store[inv'[p].sid] # NoState
    /\ store[inv'[p].sid].tool_name # inv'[p].tool

C38_Steps(p) ==
    /\ inv'[p] # inv[p]
    /\ inv'[p].op \in {"initiate", "progress", "elicitation"}
    /\ inv'[p].sid = None

\* the step is the one that begins the invocation
C38_Begins(p) == Free(p) /\ C38_Steps(p)

\* C38: when no session id can be extracted from the call context, a wrapper
\* invocation of any flow leaves the state store unchanged (primary map and
\* payment-id index), asks the provider about no stored payment, and creates
\* a new payment on every such invocation.
C38_NoSessionNoState ==
    [][\A p \in Procs :
          /\ C38_Steps(p) => store' = store /\ payment_index' = payment_index
          /\ C38_Begins(p) =>
                 /\ inv'[p].pre = "none"
                 /\ ~inv'[p].reused
                 /\ \/ inv'[p].created /\ payments' = payments + 1 /\ inv'[p].payment_id = NextPid
                    \/ inv'[p].reason = "create_payment"]_vars

\* with a store configured, a second call without a session has created a
\* second payment and the store is still empty
C38_Witness ==
    \E p \in Procs :
        /\ cfg.has_store
        /\ inv[p].op \in {"initiate", "progress", "elicitation"}
        /\ inv[p].sid = None
        /\ inv[p].created
        /\ inv[p].payment_id = PidNames[2]
        /\ \A k \in DOMAIN store : store[k] = NoState


\* ------------------------------------------------ deleting a payment's state
\* the step removes the state kept under key k: the entry is gone, or holds
\* another payment after the delete and the put of one invocation
C39_Loses(k) ==
    /\ store[k] # NoState
    /\ \/ store'[k] = NoState
       \/ store'[k].payment_id # store[k].payment_id

\* the original handler has been invoked for payment_id by the end of the step
C39_Invoked(payment_id) ==
    \E q \in Procs :
        /\ inv'[q].called
        /\ payment_id \in {inv'[q].payment_id, inv'[q].pre_pid}

\* the last answer the deleting invocation had from the provider about the
\* payment was canceled, expired or failed
C39_Terminal(p) ==
    \/ inv'[p].pre \in TerminalStatuses
    \/ inv'[p].last \in TerminalStatuses

\* the deleting invocation asked the provider about the payment and the
\* query raised
C39_QueryRaised(p) == inv'[p].pre = Raise

RedisStore_put(db, key, value) == RedisStore_put_index(RedisStore_put_primary(db, key, value), key, value)

\* RedisStore.delete: the index entry of the stored state, then the primary entry
RedisStore_delete(db, key) == RedisStore_delete_primary(RedisStore_delete_index(db, key), key)

EquivApplied(redis, call, arg, mem_ret, redis_ret) ==
    [name |-> "equiv", redis |-> redis, call |-> call, arg |-> arg, mem_ret |-> mem_ret, redis_ret |-> redis_ret]

\* both stores have run the call
EquivResult(mem, redis, call, arg, mem_ret, redis_ret) ==
    /\ store' = mem.store
    /\ payment_index' = mem.payment_index
    /\ applied' = EquivApplied(redis, call, arg, mem_ret, redis_ret)
    /\ UNCHANGED <<now, ttl_seconds, last_cleanup, lastop, pending_op, threads>>
    /\ UNCHANGED flowVars

EquivPut(key, pid) ==
    /\ cfg.flow = "equiv"
    /\ EquivResult(InMemoryStore_put(CurDb, key, Value(key, pid)),
                   RedisStore_put(applied.redis, key, Value(key, pid)),
                   "put", key, NoState, NoState)

EquivGet(key) ==
    /\ cfg.flow = "equiv"
    /\ EquivResult(CurDb, applied.redis, "get", key,
                   InMemoryStore_get(CurDb, key), RedisStore_get(applied.redis, key))

EquivGetByPaymentId(payment_id) ==
    /\ cfg.flow = "equiv"
    /\ EquivResult(CurDb, applied.redis, "get_by_payment_id", payment_id,
                   InMemoryStore_get_by_payment_id(CurDb, payment_id),
                   RedisStore_get_by_payment_id(applied.redis, payment_id))

EquivDelete(key) ==
    /\ cfg.flow = "equiv"
    /\ EquivResult(InMemoryStore_delete(CurDb, key), RedisStore_delete(applied.redis, key),
                   "delete", key, NoState, NoState)

EquivInit ==
    /\ cfg = [flow |-> "equiv", has_store |-> TRUE, procs |-> 0, tools |-> {}]
    /\ store = [k \in StoreKeys |-> NoState]
    /\ payment_index = [q \in StorePids |-> NoKey]
    /\ PENDING_ARGS = [q \in StorePids |-> NoneArgs]
    /\ payments = 0
    /\ inv = [p \in Procs |-> Idle]
    /\ ncalls = 0
    /\ paidReported = {}
    /\ initArgs = [q \in StorePids |-> NoneArgs]
    /\ exhausted = {}
    /\ now = 0
    /\ ttl_seconds = 3600
    /\ last_cleanup = 0
    /\ lastop = NoOp
    /\ pending_op = NoPending
    /\ threads = [t \in Procs |-> NoThread]
    /\ applied = EquivApplied(Db([k \in StoreKeys |-> NoState], [q \in StorePids |-> NoKey]),
                              "none", None, NoState, NoState)

EquivNext ==
    \/ \E key \in StoreKeys, pid \in StorePids \cup {None} : EquivPut(key, pid)
    \/ \E key \in StoreKeys : EquivGet(key)
    \/ \E payment_id \in StorePids : EquivGetByPaymentId(payment_id)
    \/ \E key \in StoreKeys : EquivDelete(key)

EquivSpec == EquivInit /\ [][EquivNext]_vars

\* C40: driven by the same sequence of put, get, get_by_payment_id and
\* delete calls, with no entry expiring and no backend failure, the in-memory
\* store and the external store return the same result for every call, also
\* after a key is overwritten with a state of a different payment_id.
C40_SameResults ==
    (cfg.flow = "equiv" /\ applied.call # "none") => applied.mem_ret = applied.redis_ret

====
